---- MODULE Spec2Model ----
(***************************************************************************)
(* A model of the binary-compatibility checker QBic                        *)
(* (tests/postbuild/bic/qbic.cpp, qbic.h).                                 *)
(*                                                                         *)
(* A QString is a sequence of one-character strings.  A QHash is a         *)
(* sequence of [key, value] records with pairwise distinct keys; the order *)
(* of the sequence is the order in which the hash's iterators visit it,    *)
(* which the library leaves unspecified and which is fixed for one         *)
(* unmodified object.  A QList / QStringList is a sequence, a QPair a pair.*)
(***************************************************************************)
EXTENDS Integers, Sequences, FiniteSets, TLC

VARIABLES
    pc,         \* position of the program
    oldLib,     \* QBic::Info: the reference snapshot given to the differ
    newLib,     \* QBic::Info: the current snapshot given to the differ
    vtDiff,     \* QBic::VTableDiff returned by diffVTables
    sizeDiff,   \* QBic::SizeDiff returned by diffSizes
    blackList,  \* QBic::blackList: the QList of QRegularExpression
    pointerSize,\* sizeof(void*) of the build: 4 or 8
    ba,         \* the QByteArray given to parseOutput
    source,     \* parseOutput: the blocks of the dump
    blk,        \* parseOutput: the position of the foreach over source (1-based)
    info,       \* parseOutput: the QBic::Info being built
    blockLines, \* the QStringList given to normalizedVTable: the lines of a block
    vtableOut,  \* the QStringList normalizedVTable returned
    rows,       \* tst_Bic: the data rows of sizesAndVTables still to run
    row,        \* tst_Bic: the data row sizesAndVTables is running on
    verdict,    \* tst_Bic: how the test function ended for the row
    cachedCurrentInfo, \* tst_Bic::cachedCurrentInfo: QHash<QString, QBic::Info>
    returned,   \* tst_Bic: the QBic::Info the last getCurrentInfo call returned
    compilerRuns, \* tst_Bic: how many times getCurrentInfo started the compiler
    calls,        \* tst_Bic: how many times getCurrentInfo was called
    mingwBuild  \* whether the harness is built with Q_CC_MINGW defined

diffVars == <<oldLib, newLib, vtDiff, sizeDiff>>
parseVars == <<blackList, pointerSize, ba, source, blk, info>>
normVars == <<blockLines, vtableOut>>
harnessVars == <<rows, row, verdict, cachedCurrentInfo, returned, compilerRuns, calls,
                mingwBuild>>
vars == <<pc, oldLib, newLib, vtDiff, sizeDiff, blackList, pointerSize, ba, source, blk, info,
          blockLines, vtableOut, rows, row, verdict, cachedCurrentInfo, returned, compilerRuns, calls,
          mingwBuild>>

(***************************************************************************)
(* QString                                                                 *)
(***************************************************************************)

\* QString::mid(position): the text from the 0-based position to the end.
mid(s, position) ==
    IF position >= Len(s) THEN <<>>
    ELSE SubSeq(s, (IF position < 0 THEN 0 ELSE position) + 1, Len(s))

\* QString::left(n): the first n characters; the whole string when n < 0 or n > size.
left(s, n) ==
    IF n < 0 \/ n >= Len(s) THEN s ELSE SubSeq(s, 1, n)

\* QString::right(n): the last n characters; the whole string when n < 0 or n > size.
right(s, n) ==
    IF n < 0 \/ n >= Len(s) THEN s ELSE SubSeq(s, Len(s) - n + 1, Len(s))

\* QString::chop(n): the string without its last n characters.
chop(s, n) ==
    IF n >= Len(s) THEN <<>> ELSE SubSeq(s, 1, Len(s) - n)

\* QString::startsWith
startsWith(s, p) ==
    Len(p) <= Len(s) /\ SubSeq(s, 1, Len(p)) = p

\* QString::endsWith
endsWith(s, p) ==
    Len(p) <= Len(s) /\ SubSeq(s, Len(s) - Len(p) + 1, Len(s)) = p

\* The 0-based positions at which p occurs in s.
occurrences(s, p) ==
    { i \in 0..(Len(s) - Len(p)) : SubSeq(s, i + 1, i + Len(p)) = p }

\* QString::indexOf: the first 0-based position of p in s, -1 when there is none; the
\* search starts at position i.
RECURSIVE indexFrom(_, _, _)
indexFrom(s, p, i) ==
    IF i + Len(p) > Len(s) THEN -1
    ELSE IF SubSeq(s, i + 1, i + Len(p)) = p THEN i
    ELSE indexFrom(s, p, i + 1)

indexOf(s, p) == indexFrom(s, p, 0)

\* QString::contains
contains(s, p) == indexOf(s, p) # -1

\* QString::lastIndexOf: the last 0-based position of p in s, -1 when there is none.
RECURSIVE lastIndexFrom(_, _, _)
lastIndexFrom(s, p, i) ==
    IF i < 0 THEN -1
    ELSE IF SubSeq(s, i + 1, i + Len(p)) = p THEN i
    ELSE lastIndexFrom(s, p, i - 1)

lastIndexOf(s, p) == lastIndexFrom(s, p, Len(s) - Len(p))

\* "::"
ScopeSep == <<":", ":">>

\* "__cxa_pure_virtual"
PureVirtual ==
    <<"_", "_", "c", "x", "a", "_", "p", "u", "r", "e", "_",
      "v", "i", "r", "t", "u", "a", "l">>

\* "size mismatch"
SizeMismatchText ==
    <<"s", "i", "z", "e", " ", "m", "i", "s", "m", "a", "t", "c", "h">>

\* The whitespace characters (QChar::isSpace) of the texts modelled.
Whitespace == {" ", "\t", "\n"}

\* QString::trimmed: the string without leading and trailing whitespace.
RECURSIVE trimLeft(_)
trimLeft(s) ==
    IF s # <<>> /\ Head(s) \in Whitespace THEN trimLeft(Tail(s)) ELSE s

RECURSIVE trimRight(_)
trimRight(s) ==
    IF s # <<>> /\ s[Len(s)] \in Whitespace THEN trimRight(SubSeq(s, 1, Len(s) - 1))
    ELSE s

trimmed(s) == trimRight(trimLeft(s))

\* QString::simplified: trimmed, and each run of whitespace inside replaced by one
\* space.
RECURSIVE collapse(_)
collapse(s) ==
    IF s = <<>> THEN <<>>
    ELSE IF Head(s) \in Whitespace THEN <<" ">> \o collapse(trimLeft(s))
    ELSE <<Head(s)>> \o collapse(Tail(s))

simplified(s) == collapse(trimmed(s))

\* QString::section(sep, 0, 0): the text before the first sep, the whole string when
\* there is none.
leftOrAll(s, at) == IF at = -1 THEN s ELSE SubSeq(s, 1, at)
sectionFirst(s, sep) == leftOrAll(s, indexOf(s, sep))

\* QString::section(sep, 1, 1): the text between the first and the second sep (to the
\* end when there is no second one), empty when there is no sep.
sectionAfter(s, sep, at) ==
    IF at = -1 THEN <<>> ELSE sectionFirst(mid(s, at + Len(sep)), sep)
sectionSecond(s, sep) == sectionAfter(s, sep, indexOf(s, sep))

\* QString::split(sep) with empty parts kept.
RECURSIVE splitAt(_, _, _)
splitAt(s, sep, at) ==
    IF at = -1 THEN <<s>>
    ELSE <<SubSeq(s, 1, at)>>
         \o splitAt(mid(s, at + Len(sep)), sep, indexOf(mid(s, at + Len(sep)), sep))
split(s, sep) == splitAt(s, sep, indexOf(s, sep))

(***************************************************************************)
(* Numbers.  An int is an integer of the model; a qint64 is a sign and a   *)
(* magnitude, the magnitude a sequence of hexadecimal digits 0..15, most   *)
(* significant first, without leading zeros (zero is the empty sequence).  *)
(***************************************************************************)

DecDigits == <<"0", "1", "2", "3", "4", "5", "6", "7", "8", "9">>
HexLower == DecDigits \o <<"a", "b", "c", "d", "e", "f">>
HexUpper == DecDigits \o <<"A", "B", "C", "D", "E", "F">>

isDigit(c) == \E i \in 1..10 : DecDigits[i] = c
digitValue(c) == (CHOOSE i \in 1..10 : DecDigits[i] = c) - 1
isHexDigit(c) == \E i \in 1..16 : HexLower[i] = c \/ HexUpper[i] = c
hexValue(c) == (CHOOSE i \in 1..16 : HexLower[i] = c \/ HexUpper[i] = c) - 1

\* A sequence without its leading elements equal to zero.
RECURSIVE stripZeros(_, _)
stripZeros(s, zero) ==
    IF s # <<>> /\ Head(s) = zero THEN stripZeros(Tail(s), zero) ELSE s

\* a <= b for two sequences of digits of the same length.
RECURSIVE digitsLeq(_, _)
digitsLeq(a, b) ==
    IF a = <<>> THEN TRUE
    ELSE IF digitValue(Head(a)) # digitValue(Head(b))
         THEN digitValue(Head(a)) < digitValue(Head(b))
    ELSE digitsLeq(Tail(a), Tail(b))

\* The decimal digits of INT_MAX = 2147483647 and of -INT_MIN = 2147483648.
IntMaxDigits == <<"2", "1", "4", "7", "4", "8", "3", "6", "4", "7">>
IntMinDigits == <<"2", "1", "4", "7", "4", "8", "3", "6", "4", "8">>

\* The value of a sequence of decimal digits, with the sign given (1 or -1).
RECURSIVE decValue(_, _, _)
decValue(digits, acc, sign) ==
    IF digits = <<>> THEN acc
    ELSE decValue(Tail(digits), acc * 10 + sign * digitValue(Head(digits)), sign)

\* QString::toInt(&ok): base 10, whitespace around it skipped, an optional sign;
\* the value is 0 when ok is false.
toInt(s) ==
    LET t == trimmed(s)
        neg == t # <<>> /\ Head(t) = "-"
        body == IF t # <<>> /\ Head(t) \in {"+", "-"} THEN Tail(t) ELSE t
        valid == body # <<>> /\ \A i \in 1..Len(body) : isDigit(body[i])
        sig == stripZeros(body, "0")
        fits == \/ Len(sig) < 10
                \/ Len(sig) = 10
                   /\ digitsLeq(sig, IF neg THEN IntMinDigits ELSE IntMaxDigits)
    IN  IF valid /\ fits
        THEN [ok |-> TRUE, value |-> decValue(sig, 0, IF neg THEN -1 ELSE 1)]
        ELSE [ok |-> FALSE, value |-> 0]

\* QString::number(int)
RECURSIVE numberNat(_)
numberNat(n) ==
    IF n < 10 THEN <<DecDigits[n + 1]>>
    ELSE numberNat(n \div 10) \o <<DecDigits[(n % 10) + 1]>>

RECURSIVE numberNeg(_)
numberNeg(n) ==
    LET d == (10 - (n % 10)) % 10
    IN  IF n + d = 0 THEN <<DecDigits[d + 1]>>
        ELSE numberNeg((n + d) \div 10) \o <<DecDigits[d + 1]>>

number(n) == IF n < 0 THEN <<"-">> \o numberNeg(n) ELSE numberNat(n)

\* QString::toLongLong(&ok, 16): whitespace around it skipped, an optional sign, an
\* optional 0x or 0X, then hexadecimal digits; not ok outside the range of qint64.
toLongLong(s) ==
    LET t == trimmed(s)
        neg == t # <<>> /\ Head(t) = "-"
        signless == IF t # <<>> /\ Head(t) \in {"+", "-"} THEN Tail(t) ELSE t
        body == IF Len(signless) >= 2 /\ signless[1] = "0" /\ signless[2] \in {"x", "X"}
                THEN SubSeq(signless, 3, Len(signless)) ELSE signless
        valid == body # <<>> /\ \A i \in 1..Len(body) : isHexDigit(body[i])
        mag == stripZeros([i \in 1..Len(body) |-> hexValue(body[i])], 0)
        fits == \/ Len(mag) < 16
                \/ Len(mag) = 16
                   /\ \/ mag[1] < 8
                      \/ neg /\ mag[1] = 8 /\ \A i \in 2..16 : mag[i] = 0
    IN  IF valid /\ fits
        THEN [ok |-> TRUE, neg |-> neg /\ mag # <<>>, mag |-> mag]
        ELSE [ok |-> FALSE, neg |-> FALSE, mag |-> <<>>]

\* The last n hexadecimal digits of the two's complement of a qint64.
RECURSIVE addOne(_)
addOne(d) ==
    IF d = <<>> THEN <<>>
    ELSE IF d[Len(d)] = 15 THEN addOne(SubSeq(d, 1, Len(d) - 1)) \o <<0>>
    ELSE SubSeq(d, 1, Len(d) - 1) \o <<d[Len(d)] + 1>>

negate(d) == addOne([i \in 1..Len(d) |-> 15 - d[i]])

lowDigits(num, n) ==
    LET padded == [i \in 1..n |-> 0] \o num.mag
        low == SubSeq(padded, Len(padded) - n + 1, Len(padded))
    IN  IF num.neg THEN negate(low) ELSE low

\* int(num): the low 32 bits of a qint64 read as a signed integer, as a sign and a
\* magnitude.
truncateToInt(num) ==
    LET low == lowDigits(num, 8)
    IN  IF low[1] >= 8
        THEN [ok |-> TRUE, neg |-> TRUE, mag |-> stripZeros(negate(low), 0)]
        ELSE [ok |-> TRUE, neg |-> FALSE, mag |-> stripZeros(low, 0)]

\* The quotient (as digits 0..15) and the remainder of a magnitude divided by ten.
RECURSIVE divTen(_, _, _)
divTen(mag, quotient, rem) ==
    IF mag = <<>> THEN [quotient |-> quotient, rem |-> rem]
    ELSE divTen(Tail(mag), Append(quotient, (rem * 16 + Head(mag)) \div 10),
                (rem * 16 + Head(mag)) % 10)

RECURSIVE decimalOf(_)
decimalOf(mag) ==
    IF mag = <<>> THEN <<>>
    ELSE LET d == divTen(mag, <<>>, 0)
         IN  decimalOf(stripZeros(d.quotient, 0)) \o <<DecDigits[d.rem + 1]>>

\* QString::number(qlonglong), and QString::number(int) of a truncated value.
numberLongLong(num) ==
    IF num.mag = <<>> THEN <<"0">>
    ELSE (IF num.neg THEN <<"-">> ELSE <<>>) \o decimalOf(num.mag)

(***************************************************************************)
(* QHash                                                                   *)
(***************************************************************************)

\* The keys of a hash in iteration order.
hashKeys(h) == [i \in 1..Len(h) |-> h[i].key]

\* QHash::contains
hashContains(h, k) == \E i \in 1..Len(h) : h[i].key = k

\* QHash::value(key) of a key the hash contains.
hashValue(h, k) == h[CHOOSE i \in 1..Len(h) : h[i].key = k].value

\* The set of elements of a list.
Range(s) == { s[i] : i \in 1..Len(s) }

\* QHash::operator[](key) = value: the value of a key the hash contains is replaced
\* in place; a new key is inserted, after which the iteration order of the hash is any
\* order of its entries.
orderings(s) ==
    { [i \in 1..Len(s) |-> s[f[i]]] :
        f \in { g \in [1..Len(s) -> 1..Len(s)] :
                  \A i, j \in 1..Len(s) : i # j => g[i] # g[j] } }

\* A faulty insertion that keeps the value of a key the hash contains.
hashInsertKeepFirst(h, k, v) ==
    IF hashContains(h, k) THEN {h}
    ELSE orderings(Append(h, [key |-> k, value |-> v]))

hashInsert(h, k, v) ==
    IF hashContains(h, k)
    THEN { [i \in 1..Len(h) |-> IF h[i].key = k THEN [key |-> k, value |-> v] ELSE h[i]] }
    ELSE orderings(Append(h, [key |-> k, value |-> v]))

\* A default-constructed QBic::Info.
EmptyInfo == [classSizes |-> <<>>, classVTables |-> <<>>]

(***************************************************************************)
(* QRegularExpression.  A pattern is a sequence of tokens, each a literal  *)
(* character, one character other than "/" or any run of characters other *)
(* than "/", and is anchored (it matches the whole subject only) or not    *)
(* (it matches when some part of the subject matches).                     *)
(***************************************************************************)

\* QRegularExpression::wildcardToRegularExpression: * is any run and ? any one
\* character other than the path separator, every other character is itself.
wildcardToRegularExpression(wildcard) ==
    [anchored |-> TRUE,
     tokens |-> [i \in 1..Len(wildcard) |->
        IF wildcard[i] = "*" THEN [kind |-> "many", c |-> ""]
        ELSE IF wildcard[i] = "?" THEN [kind |-> "one", c |-> ""]
        ELSE [kind |-> "char", c |-> wildcard[i]]]]

\* QRegularExpression::anchoredPattern
anchoredPattern(expression) == [expression EXCEPT !.anchored = TRUE]

\* Whether the tokens match the whole of s.
RECURSIVE matchTokens(_, _)
matchTokens(tokens, s) ==
    IF tokens = <<>> THEN s = <<>>
    ELSE CASE Head(tokens).kind = "char" ->
                s # <<>> /\ Head(s) = Head(tokens).c /\ matchTokens(Tail(tokens), Tail(s))
           [] Head(tokens).kind = "one" ->
                s # <<>> /\ Head(s) # "/" /\ matchTokens(Tail(tokens), Tail(s))
           [] Head(tokens).kind = "many" ->
                \/ matchTokens(Tail(tokens), s)
                \/ s # <<>> /\ Head(s) # "/" /\ matchTokens(tokens, Tail(s))

\* A faulty hasMatch that accepts a match of the whole subject only.
hasMatchWhole(expression, subject) ==
    matchTokens(expression.tokens, subject)

\* QRegularExpression::match(subject).hasMatch()
hasMatch(expression, subject) ==
    IF expression.anchored THEN matchTokens(expression.tokens, subject)
    ELSE \E i \in 1..(Len(subject) + 1) :
            \E j \in (i - 1)..Len(subject) :
                matchTokens(expression.tokens, SubSeq(subject, i, j))

(***************************************************************************)
(* The blacklist                                                           *)
(***************************************************************************)

\* The pattern addBlacklistedClass(wildcard) and removeBlacklistedClass(wildcard)
\* build.
wildcardExpression(wildcard) ==
    anchoredPattern(wildcardToRegularExpression(wildcard))

\* A faulty isBlacklisted that lacks the test for templates.
isBlacklistedNoTemplates(className) ==
    \E i \in 1..Len(blackList) : hasMatch(blackList[i], className)

\* QBic::isBlacklisted(className)
isBlacklisted(className) ==
    IF contains(className, <<"<">>) THEN TRUE
    ELSE \E i \in 1..Len(blackList) : hasMatch(blackList[i], className)

\* A faulty removal that takes the first occurrence only (QList::removeOne).
RECURSIVE removeOne(_, _)
removeOne(list, value) ==
    IF list = <<>> THEN <<>>
    ELSE IF Head(list) = value THEN Tail(list)
    ELSE <<Head(list)>> \o removeOne(Tail(list), value)

\* QList::removeAll(value)
RECURSIVE removeAll(_, _)
removeAll(list, value) ==
    IF list = <<>> THEN <<>>
    ELSE IF Head(list) = value THEN removeAll(Tail(list), value)
    ELSE <<Head(list)>> \o removeAll(Tail(list), value)

(***************************************************************************)
(* QString::arg                                                            *)
(***************************************************************************)

\* The place markers %N and %LN (N of one or two digits) of s from position i on, in
\* order, each with its first and last position and its number.
RECURSIVE argEscapes(_, _)
argEscapes(s, i) ==
    IF i > Len(s) THEN <<>>
    ELSE IF s[i] # "%" THEN argEscapes(s, i + 1)
    ELSE IF i = Len(s) THEN <<>>
    ELSE LET d == IF s[i + 1] = "L" THEN i + 2 ELSE i + 1
         IN  IF d > Len(s) THEN <<>>
             ELSE IF ~isDigit(s[d]) THEN argEscapes(s, d)
             ELSE IF d + 1 <= Len(s) /\ isDigit(s[d + 1])
                  THEN << [first |-> i, last |-> d + 1,
                           n |-> 10 * digitValue(s[d]) + digitValue(s[d + 1])] >>
                       \o argEscapes(s, d + 2)
             ELSE << [first |-> i, last |-> d, n |-> digitValue(s[d])] >>
                  \o argEscapes(s, d + 1)

\* s from position pos on, with the markers of number n among escapes replaced by a.
RECURSIVE argReplace(_, _, _, _, _)
argReplace(s, escapes, n, a, pos) ==
    IF escapes = <<>> THEN SubSeq(s, pos, Len(s))
    ELSE IF Head(escapes).n = n
         THEN SubSeq(s, pos, Head(escapes).first - 1) \o a
              \o argReplace(s, Tail(escapes), n, a, Head(escapes).last + 1)
    ELSE argReplace(s, Tail(escapes), n, a, pos)

\* QString::arg(a): every place marker of the lowest number is replaced by a; s itself
\* when it has no place marker.
arg(s, a) ==
    LET escapes == argEscapes(s, 1)
    IN  IF escapes = <<>> THEN s
        ELSE LET lowest == CHOOSE n \in { escapes[i].n : i \in 1..Len(escapes) } :
                               \A i \in 1..Len(escapes) : n <= escapes[i].n
             IN  argReplace(s, escapes, lowest, a, 1)

(***************************************************************************)
(* Normalization of a vtable block                                         *)
(***************************************************************************)

\* qualifiedTailMatch(expectedTail, symbol)
qualifiedTailMatch(expectedTail, symbol) ==
    IF symbol = expectedTail THEN TRUE
    ELSE LET tail == right(symbol, Len(expectedTail) - 2)
         IN  IF ~startsWith(tail, ScopeSep) THEN FALSE
             ELSE endsWith(tail, expectedTail)

\* "_ZTVN"
VTablePrefix == <<"_", "Z", "T", "V", "N">>

\* A faulty innerClassVTableSymbol that lacks the final E.
innerClassVTableSymbolNoE(outerClass, innerClass) ==
    VTablePrefix \o number(Len(outerClass)) \o outerClass
        \o number(Len(innerClass)) \o innerClass

\* innerClassVTableSymbol(outerClass, innerClass)
innerClassVTableSymbol(outerClass, innerClass) ==
    VTablePrefix \o number(Len(outerClass)) \o outerClass
        \o number(Len(innerClass)) \o innerClass \o <<"E">>

\* "%1::_ZThn%2_N%3%4"
SymbolTemplate ==
    <<"%", "1", ":", ":", "_", "Z", "T", "h", "n", "%", "2", "_", "N", "%", "3", "%", "4">>

\* "D%1Ev"
SuffixTemplate == <<"D", "%", "1", "E", "v">>

\* Faulty offsets that lack the last one.
ThunkOffsetsShort == <<16, 32>>

\* The offsets of the non-virtual thunks looked for.
ThunkOffsets == <<16, 32, 40>>

\* nonVirtualThunkToDestructorSymbols(className)
nonVirtualThunkToDestructorSymbols(className) ==
    LET candidates ==
            [k \in 1..Len(ThunkOffsets) |->
                arg(arg(arg(arg(SymbolTemplate, className), number(ThunkOffsets[k])),
                        number(Len(className))), className)]
        suffix(i) == arg(SuffixTemplate, number(i))
    IN  [k \in 1..Len(candidates) |-> candidates[k] \o suffix(0)]
        \o [k \in 1..Len(candidates) |-> candidates[k] \o suffix(1)]

\* parseClassName(mangledClassName, &className, &qualifiedClassName)
parseClassName(mangledClassName) ==
    LET outerClassCandidate == sectionFirst(mangledClassName, ScopeSep)
        innerClassCandidate == sectionSecond(mangledClassName, ScopeSep)
        innerClassVTableSymbolCandidate ==
            innerClassVTableSymbol(outerClassCandidate, innerClassCandidate)
        qualifiedInnerClassVTableSymbolCandidate ==
            outerClassCandidate \o ScopeSep \o innerClassCandidate \o ScopeSep
                \o innerClassVTableSymbolCandidate
    IN  IF mangledClassName = qualifiedInnerClassVTableSymbolCandidate
        THEN [className |-> innerClassCandidate,
              qualifiedClassName |-> outerClassCandidate \o ScopeSep \o innerClassCandidate]
        ELSE [className |-> outerClassCandidate,
              qualifiedClassName |-> outerClassCandidate]

\* matchDestructor(mangledClassName, symbol)
matchDestructor(mangledClassName, symbol) ==
    LET parsed == parseClassName(mangledClassName)
        destructor == parsed.qualifiedClassName \o <<":", ":", "~">> \o parsed.className
        candidates == nonVirtualThunkToDestructorSymbols(parsed.className)
    IN  \/ qualifiedTailMatch(destructor, symbol)
        \/ \E k \in 1..Len(candidates) : qualifiedTailMatch(candidates[k], symbol)

\* A faulty symbolOf that keeps the cast in front of the symbol.
symbolOfNoUnwrap(line) ==
    mid(line, indexOf(line, <<" ">>) + 1)

\* A faulty symbolOf that unwraps a parenthesized text from its first "(" on.
symbolOfFirstParen(line) ==
    LET sym == mid(line, indexOf(line, <<" ">>) + 1)
    IN  IF startsWith(sym, <<"(">>)
        THEN IF endsWith(sym, <<")">>)
             THEN chop(mid(sym, indexOf(sym, <<"(">>) + 1), 1)
             ELSE mid(sym, lastIndexOf(sym, <<")">>) + 1)
        ELSE left(sym, indexOf(sym, <<"(">>))

\* The symbol of a line of a vtable block: the text after the index, unwrapped.
\* left(-1) and mid(0) are the whole text.
symbolOf(line) ==
    LET sym == mid(line, indexOf(line, <<" ">>) + 1)
    IN  IF startsWith(sym, <<"(">>)
        THEN IF endsWith(sym, <<")">>)
             THEN chop(mid(sym, lastIndexOf(sym, <<"(">>) + 1), 1)
             ELSE mid(sym, lastIndexOf(sym, <<")">>) + 1)
        ELSE left(sym, indexOf(sym, <<"(">>))

\* if (sym.startsWith("& ")) sym.remove(1, 1);
withoutReferenceSpace(sym) ==
    IF startsWith(sym, <<"&", " ">>) THEN <<Head(sym)>> \o mid(sym, 2) ELSE sym

\* A faulty end of the body that never truncates the value to an int.
normalizedNumberWide(num, value) ==
    IF ~value.ok THEN [ok |-> FALSE, entry |-> <<>>]
    ELSE [ok |-> TRUE, entry |-> number(num) \o <<" ">> \o numberLongLong(value)]

\* The end of the body of the loop of normalizedVTable, from the test for a numeric
\* symbol on: whether an entry is appended, and the entry.  value is the symbol read
\* as a hexadecimal qint64.
normalizedNumber(num, value) ==
    IF ~value.ok THEN [ok |-> FALSE, entry |-> <<>>]
    ELSE [ok |-> TRUE,
          entry |-> number(num) \o <<" ">>
                    \o (IF pointerSize = 4 THEN numberLongLong(truncateToInt(value))
                        ELSE numberLongLong(value))]

normalizedToken(num, sym) ==
    IF startsWith(sym, <<"-", "0">>) \/ startsWith(sym, <<"0">>)
    THEN normalizedNumber(num, toLongLong(IF endsWith(sym, <<"u">>) THEN chop(sym, 1)
                                          ELSE sym))
    ELSE [ok |-> TRUE, entry |-> number(num) \o <<" ">> \o sym]

\* The body of the loop from the test of the index on; num is the index read by
\* toInt and sym the symbol of the line.
normalizedSymbol(className, num, sym) ==
    IF ~num.ok THEN [ok |-> FALSE, entry |-> <<>>]
    ELSE normalizedToken(num.value, IF matchDestructor(className, sym) THEN <<"0">>
                                    ELSE sym)

\* The body of the loop for the simplified line.
normalizedSimplified(className, line) ==
    normalizedSymbol(className, toInt(left(line, indexOf(line, <<" ">>))),
                     withoutReferenceSpace(symbolOf(line)))

\* The body of the loop of normalizedVTable for one line: whether an entry is
\* appended, and the entry.
normalizedLine(className, rawLine) ==
    normalizedSimplified(className, simplified(rawLine))

\* A faulty loop that puts each entry in front of the entries before it.
RECURSIVE normalizedLinesPrepend(_, _, _, _)
normalizedLinesPrepend(normalized, className, entry, i) ==
    IF i > Len(entry) THEN normalized
    ELSE LET n == normalizedLine(className, entry[i])
         IN  normalizedLinesPrepend(IF n.ok THEN <<n.entry>> \o normalized ELSE normalized,
                                    className, entry, i + 1)

\* A faulty loop that ends at the first line it cannot normalize.
RECURSIVE normalizedLinesBreak(_, _, _, _)
normalizedLinesBreak(normalized, className, entry, i) ==
    IF i > Len(entry) THEN normalized
    ELSE LET n == normalizedLine(className, entry[i])
         IN  IF n.ok
             THEN normalizedLinesBreak(Append(normalized, n.entry), className, entry, i + 1)
             ELSE normalized

\* for (int i = 2; i < entry.count(); ++i) of normalizedVTable (i is 1-based here).
RECURSIVE normalizedLines(_, _, _, _)
normalizedLines(normalized, className, entry, i) ==
    IF i > Len(entry) THEN normalized
    ELSE LET n == normalizedLine(className, entry[i])
         IN  normalizedLines(IF n.ok THEN Append(normalized, n.entry) ELSE normalized,
                             className, entry, i + 1)

\* normalizedVTable(entry): the class name is the second line up to its first space,
\* without its last character.
normalizedVTable(entry) ==
    normalizedLines(<<>>, chop(sectionFirst(entry[2], <<" ">>), 1), entry, 3)

(***************************************************************************)
(* The dump parser                                                         *)
(***************************************************************************)

\* "Class ", "Vtable for ", "size=", "\n\n"
ClassPrefix == <<"C", "l", "a", "s", "s", " ">>
VTablePrefixText == <<"V", "t", "a", "b", "l", "e", " ", "f", "o", "r", " ">>
SizeKey == <<"s", "i", "z", "e", "=">>
BlockSep == <<"\n", "\n">>

\* The longest run of decimal digits at the start of s.
RECURSIVE leadingDigits(_)
leadingDigits(s) ==
    IF s # <<>> /\ isDigit(Head(s)) THEN <<Head(s)>> \o leadingDigits(Tail(s)) ELSE <<>>

\* QRegularExpression("size=(\\d+)").match(line): whether there is a match, and the
\* text captured by the first one.
sizeMatch(line) ==
    LET starts == { i \in occurrences(line, SizeKey) :
                      leadingDigits(mid(line, i + Len(SizeKey))) # <<>> }
    IN  IF starts = {} THEN [hasMatch |-> FALSE, captured |-> <<>>]
        ELSE LET first == CHOOSE i \in starts : \A j \in starts : i <= j
             IN  [hasMatch |-> TRUE,
                  captured |-> leadingDigits(mid(line, first + Len(SizeKey)))]

\* A faulty branch for a "Class " block that stores the size of a blacklisted class.
parseClassBlockUnfiltered(inf, className, match) ==
    IF ~match.hasMatch THEN {inf}
    ELSE { [inf EXCEPT !.classSizes = h] :
             h \in hashInsert(inf.classSizes, className, toInt(match.captured).value) }

\* A faulty branch for a "Class " block that tests the resolved class name against the
\* blacklist.
parseClassBlockResolved(inf, className, match) ==
    IF isBlacklisted(parseClassName(className).className) THEN {inf}
    ELSE IF ~match.hasMatch THEN {inf}
    ELSE { [inf EXCEPT !.classSizes = h] :
             h \in hashInsert(inf.classSizes, className, toInt(match.captured).value) }

\* The branch of parseOutput for a block that starts with "Class ": the values info
\* can have after it.  match is the match of the size in the second line.
parseClassBlock(inf, className, match) ==
    IF isBlacklisted(className) THEN {inf}
    ELSE IF ~match.hasMatch THEN {inf}
    ELSE { [inf EXCEPT !.classSizes = h] :
             h \in hashInsert(inf.classSizes, className, toInt(match.captured).value) }

\* A faulty branch for a "Vtable for " block that stores no empty vtable.
parseVTableBlockSkipEmpty(inf, className, entry) ==
    IF isBlacklisted(className) \/ normalizedVTable(entry) = <<>> THEN {inf}
    ELSE { [inf EXCEPT !.classVTables = h] :
             h \in hashInsert(inf.classVTables, className, normalizedVTable(entry)) }

\* The branch of parseOutput for a block that starts with "Vtable for ".
parseVTableBlock(inf, className, entry) ==
    IF isBlacklisted(className) THEN {inf}
    ELSE { [inf EXCEPT !.classVTables = h] :
             h \in hashInsert(inf.classVTables, className, normalizedVTable(entry)) }

\* The body of the foreach of parseOutput for the lines of a block.
parseEntry(inf, entry) ==
    IF Len(entry) < 2 THEN {inf}
    ELSE IF startsWith(entry[1], ClassPrefix)
         THEN parseClassBlock(inf, mid(entry[1], 6), sizeMatch(entry[2]))
    ELSE IF startsWith(entry[1], VTablePrefixText)
         THEN parseVTableBlock(inf, mid(entry[1], 11), entry)
    ELSE {inf}

\* A faulty body that takes the empty lines in front of a block away first.
parseBlockTrimmed(inf, str) ==
    parseEntry(inf, split(trimLeft(str), <<"\n">>))

\* The body of the foreach of parseOutput for the block str: the values info can have
\* after it.
parseBlock(inf, str) ==
    parseEntry(inf, split(str, <<"\n">>))

(***************************************************************************)
(* The differ                                                              *)
(***************************************************************************)

\* A faulty diffVTableEntry that lacks the test for equal entries.
diffVTableEntryNoMatch(v1, v2) ==
    IF endsWith(v2, PureVirtual) THEN "Reimp"
    ELSE IF ~contains(v1, ScopeSep) \/ ~contains(v2, ScopeSep) THEN "Mismatch"
    ELSE IF mid(v1, lastIndexOf(v1, ScopeSep) + 2) = mid(v2, lastIndexOf(v2, ScopeSep) + 2)
         THEN "Reimp" ELSE "Mismatch"

\* A faulty diffVTableEntry whose comparison of the method names is inverted.
diffVTableEntryInverted(v1, v2) ==
    IF v1 = v2 THEN "Match"
    ELSE IF endsWith(v2, PureVirtual) THEN "Reimp"
    ELSE IF ~contains(v1, ScopeSep) \/ ~contains(v2, ScopeSep) THEN "Mismatch"
    ELSE IF mid(v1, lastIndexOf(v1, ScopeSep) + 2) # mid(v2, lastIndexOf(v2, ScopeSep) + 2)
         THEN "Reimp" ELSE "Mismatch"

\* enum VTableDiffResult { Match, Mismatch, Reimp } and diffVTableEntry(v1, v2)
diffVTableEntry(v1, v2) ==
    IF v1 = v2 THEN "Match"
    ELSE IF endsWith(v2, PureVirtual) THEN "Reimp"
    ELSE IF ~contains(v1, ScopeSep) \/ ~contains(v2, ScopeSep) THEN "Mismatch"
    ELSE LET sym1 == mid(v1, lastIndexOf(v1, ScopeSep) + 2)
             sym2 == mid(v2, lastIndexOf(v2, ScopeSep) + 2)
         IN  IF sym1 = sym2 THEN "Reimp" ELSE "Mismatch"

\* A faulty entryPair that puts the new entry first.
entryPairNewFirst(oldVTable, vTable, i) == <<vTable[i], oldVTable[i]>>

\* The pair the entry loop of diffVTables appends for position i (1-based here).
entryPair(oldVTable, vTable, i) == <<oldVTable[i], vTable[i]>>

\* A faulty entryResult that passes the old entry first.
entryResultOldFirst(oldVTable, vTable, i) == diffVTableEntry(oldVTable[i], vTable[i])

\* The call of diffVTableEntry made by the entry loop of diffVTables for position i:
\* the new entry is v1, the old entry v2.
entryResult(oldVTable, vTable, i) == diffVTableEntry(vTable[i], oldVTable[i])

\* for (int i = 0; i < vTable.count(); ++i) { switch (diffVTableEntry(...)) ... }
RECURSIVE compareEntries(_, _, _, _)
compareEntries(result, oldVTable, vTable, i) ==
    IF i > Len(vTable) THEN result
    ELSE LET diffResult == entryResult(oldVTable, vTable, i)
             next ==
                 CASE diffResult = "Match" -> result
                   [] diffResult = "Mismatch" ->
                        [result EXCEPT !.modifiedVTables =
                            Append(@, entryPair(oldVTable, vTable, i))]
                   [] diffResult = "Reimp" ->
                        [result EXCEPT !.reimpMethods =
                            Append(@, entryPair(oldVTable, vTable, i))]
         IN  compareEntries(next, oldVTable, vTable, i + 1)

\* The shorter of two lists.
shorter(a, b) == IF Len(a) <= Len(b) THEN a ELSE b

\* A faulty newClassStep that goes on to compare the entries after a size mismatch.
newClassStepNoContinue(result, old, new, it) ==
    LET key == new.classVTables[it].key
        vTable == new.classVTables[it].value
    IN  IF ~hashContains(old.classVTables, key)
        THEN [result EXCEPT !.addedVTables = Append(@, key)]
        ELSE LET oldVTable == hashValue(old.classVTables, key)
             IN  IF Len(vTable) # Len(oldVTable)
                 THEN compareEntries(
                          [result EXCEPT !.modifiedVTables =
                              Append(@, <<key, SizeMismatchText>>)],
                          oldVTable, shorter(vTable, oldVTable), 1)
                 ELSE compareEntries(result, oldVTable, vTable, 1)

\* The body of the first loop of diffVTables for the class at position it of
\* newLib.classVTables.
newClassStep(result, old, new, it) ==
    LET key == new.classVTables[it].key
        vTable == new.classVTables[it].value
    IN  IF ~hashContains(old.classVTables, key)
        THEN [result EXCEPT !.addedVTables = Append(@, key)]
        ELSE LET oldVTable == hashValue(old.classVTables, key)
             IN  IF Len(vTable) # Len(oldVTable)
                 THEN [result EXCEPT !.modifiedVTables =
                          Append(@, <<key, SizeMismatchText>>)]
                 ELSE compareEntries(result, oldVTable, vTable, 1)

\* A faulty first loop that ends at the first class oldLib does not have.
RECURSIVE newClassLoopBreak(_, _, _, _)
newClassLoopBreak(result, old, new, it) ==
    IF it > Len(new.classVTables) THEN result
    ELSE IF ~hashContains(old.classVTables, new.classVTables[it].key)
         THEN newClassStep(result, old, new, it)
    ELSE newClassLoopBreak(newClassStep(result, old, new, it), old, new, it + 1)

\* The first loop of diffVTables: over newLib.classVTables in iteration order.
RECURSIVE newClassLoop(_, _, _, _)
newClassLoop(result, old, new, it) ==
    IF it > Len(new.classVTables) THEN result
    ELSE newClassLoop(newClassStep(result, old, new, it), old, new, it + 1)

\* A faulty oldClassStep that looks the class up in oldLib.
oldClassStepWrongLib(result, old, new, it) ==
    IF ~hashContains(old.classVTables, old.classVTables[it].key)
    THEN [result EXCEPT !.removedVTables = Append(@, old.classVTables[it].key)]
    ELSE result

\* A faulty oldClassStep that prepends the class.
oldClassStepPrepend(result, old, new, it) ==
    IF ~hashContains(new.classVTables, old.classVTables[it].key)
    THEN [result EXCEPT !.removedVTables = <<old.classVTables[it].key>> \o @]
    ELSE result

\* The body of the second loop of diffVTables for the class at position it of
\* oldLib.classVTables.
oldClassStep(result, old, new, it) ==
    IF ~hashContains(new.classVTables, old.classVTables[it].key)
    THEN [result EXCEPT !.removedVTables = Append(@, old.classVTables[it].key)]
    ELSE result

\* The second loop of diffVTables: over oldLib.classVTables in iteration order.
RECURSIVE oldClassLoop(_, _, _, _)
oldClassLoop(result, old, new, it) ==
    IF it > Len(old.classVTables) THEN result
    ELSE oldClassLoop(oldClassStep(result, old, new, it), old, new, it + 1)

\* A default-constructed QBic::VTableDiff.
EmptyVTableDiff ==
    [reimpMethods |-> <<>>, modifiedVTables |-> <<>>,
     addedVTables |-> <<>>, removedVTables |-> <<>>]

\* QBic::diffVTables(oldLib, newLib)
diffVTables(old, new) ==
    oldClassLoop(newClassLoop(EmptyVTableDiff, old, new, 1), old, new, 1)

\* A faulty newSizeStep that goes on after an added class: QHash::value gives 0 for it.
newSizeStepNoContinue(result, old, new, it) ==
    LET key == new.classSizes[it].key
        added == IF ~hashContains(old.classSizes, key)
                 THEN [result EXCEPT !.added = Append(@, key)]
                 ELSE result
        oldSize == IF hashContains(old.classSizes, key)
                   THEN hashValue(old.classSizes, key) ELSE 0
    IN  IF oldSize # new.classSizes[it].value
        THEN [added EXCEPT !.mismatch = Append(@, key)]
        ELSE added

\* The body of the first loop of diffSizes for the class at position it of
\* newLib.classSizes.
newSizeStep(result, old, new, it) ==
    LET key == new.classSizes[it].key
    IN  IF ~hashContains(old.classSizes, key)
        THEN [result EXCEPT !.added = Append(@, key)]
        ELSE LET oldSize == hashValue(old.classSizes, key)
                 newSize == new.classSizes[it].value
             IN  IF oldSize # newSize
                 THEN [result EXCEPT !.mismatch = Append(@, key)]
                 ELSE result

\* The first loop of diffSizes: over newLib.classSizes in iteration order.
RECURSIVE newSizeLoop(_, _, _, _)
newSizeLoop(result, old, new, it) ==
    IF it > Len(new.classSizes) THEN result
    ELSE newSizeLoop(newSizeStep(result, old, new, it), old, new, it + 1)

\* The body of the second loop of diffSizes for the class at position it of
\* oldLib.classSizes.
oldSizeStep(result, old, new, it) ==
    IF ~hashContains(new.classSizes, old.classSizes[it].key)
    THEN [result EXCEPT !.removed = Append(@, old.classSizes[it].key)]
    ELSE result

\* The second loop of diffSizes: over oldLib.classSizes in iteration order.
RECURSIVE oldSizeLoop(_, _, _, _)
oldSizeLoop(result, old, new, it) ==
    IF it > Len(old.classSizes) THEN result
    ELSE oldSizeLoop(oldSizeStep(result, old, new, it), old, new, it + 1)

\* A default-constructed QBic::SizeDiff.
EmptySizeDiff == [mismatch |-> <<>>, added |-> <<>>, removed |-> <<>>]

\* QBic::diffSizes(oldLib, newLib)
diffSizes(old, new) ==
    oldSizeLoop(newSizeLoop(EmptySizeDiff, old, new, 1), old, new, 1)

(***************************************************************************)
(* Inputs of the differ                                                    *)
(***************************************************************************)

\* Bound: the number of vtable entries of the two snapshots of one run together.
MaxEntries == 4

\* A vtable of an input has at most this many entries: the longest that two vtables
\* of one run can both have.
MaxVTableLen == MaxEntries \div 2

\* "Foo", "Bar"
Foo == <<"F", "o", "o">>
Bar == <<"B", "a", "r">>

\* The class names of the differ's inputs.
ClassPool == {Foo, Bar}

\* The normalized vtable entries of the differ's inputs:
\* "0 A::m", "0 B::m", "0 A::n", "0 0", "0 __cxa_pure_virtual".
EntryPool ==
    { <<"0", " ", "A", ":", ":", "m">>,
      <<"0", " ", "B", ":", ":", "m">>,
      <<"0", " ", "A", ":", ":", "n">>,
      <<"0", " ", "0">>,
      <<"0", " ">> \o PureVirtual }

\* The class sizes of the differ's inputs.
SizePool == {8, 16, 24}

\* The iteration orders of a hash over class names: the sequences of distinct names.
KeyOrders ==
    { s \in UNION { [1..n -> ClassPool] : n \in 0..Cardinality(ClassPool) } :
        \A i, j \in 1..Len(s) : i # j => s[i] # s[j] }

RECURSIVE SumSeq(_)
SumSeq(s) == IF Len(s) = 0 THEN 0 ELSE s[1] + SumSeq(Tail(s))

\* The hash with keys `keys` whose i-th vtable is the next lens[i] entries of flat
\* after the first offset ones.
vtHash(keys, lens, flat, offset) ==
    [i \in 1..Len(keys) |->
        [key |-> keys[i],
         value |-> SubSeq(flat, offset + SumSeq(SubSeq(lens, 1, i - 1)) + 1,
                                offset + SumSeq(SubSeq(lens, 1, i)))]]

\* The hashes of class sizes over ClassPool.
SizeHashes ==
    UNION { { [i \in 1..Len(ks) |-> [key |-> ks[i], value |-> f[i]]] :
                f \in [1..Len(ks) -> SizePool] } : ks \in KeyOrders }

\* The classSizes of a run that varies the vtables, the classVTables of one that
\* varies the sizes.
FixedSizes == << [key |-> Foo, value |-> 16] >>
FixedVTables == << [key |-> Foo, value |-> << <<"0", " ", "A", ":", ":", "m">> >>] >>

\* The snapshots of a run: any vtables of at most MaxVTableLen entries each and
\* MaxEntries entries together, or any class sizes.
DiffInputsOver(pool, old, new) ==
    \/ \E ko, kn \in KeyOrders :
       \E lo \in [1..Len(ko) -> 0..MaxVTableLen], ln \in [1..Len(kn) -> 0..MaxVTableLen] :
          /\ SumSeq(lo) + SumSeq(ln) <= MaxEntries
          /\ \E flat \in [1..(SumSeq(lo) + SumSeq(ln)) -> pool] :
                /\ old = [classSizes |-> FixedSizes,
                          classVTables |-> vtHash(ko, lo, flat, 0)]
                /\ new = [classSizes |-> FixedSizes,
                          classVTables |-> vtHash(kn, ln, flat, SumSeq(lo))]
    \/ \E so, sn \in SizeHashes :
          /\ old = [classSizes |-> so, classVTables |-> FixedVTables]
          /\ new = [classSizes |-> sn, classVTables |-> FixedVTables]

DiffInputs(old, new) == DiffInputsOver(EntryPool, old, new)

\* The snapshots of a run in which the iteration order of the hashes is looked at: the
\* same, with vtable entries of three values: "0 A::m", "0 B::m", "0 A::n".
OrderEntryPool ==
    { <<"0", " ", "A", ":", ":", "m">>, <<"0", " ", "B", ":", ":", "m">>,
      <<"0", " ", "A", ":", ":", "n">> }

OrderInputs(old, new) == DiffInputsOver(OrderEntryPool, old, new)

\* A data row before QTest fills it.
NoRow == [tag |-> <<>>, libName |-> <<>>, oldLib |-> <<>>, isPatchRelease |-> FALSE]

\* The test harness before any of its functions has run.
HarnessIdle ==
    /\ rows = <<>>
    /\ row = NoRow
    /\ verdict = "none"
    /\ cachedCurrentInfo = <<>>
    /\ returned = EmptyInfo
    /\ compilerRuns = 0
    /\ calls = 0
    /\ mingwBuild = FALSE

(***************************************************************************)
(* The program: tst_Bic::sizesAndVTables runs diffVTables, then diffSizes, *)
(* on one pair of snapshots.                                               *)
(***************************************************************************)

InitDiff ==
    /\ HarnessIdle
    /\ pc = "start"
    /\ DiffInputs(oldLib, newLib)
    /\ vtDiff = EmptyVTableDiff
    /\ sizeDiff = EmptySizeDiff
    /\ blackList = <<>>
    /\ pointerSize = 8
    /\ ba = <<>>
    /\ source = <<>>
    /\ blk = 1
    /\ info = EmptyInfo
    /\ blockLines = <<>>
    /\ vtableOut = <<>>

\* QBic::VTableDiff diff = bic.diffVTables(oldLibInfo, currentLibInfo);
DiffVTables ==
    /\ pc = "start"
    /\ vtDiff' = diffVTables(oldLib, newLib)
    /\ pc' = "vtables"
    /\ UNCHANGED <<oldLib, newLib, sizeDiff>>
    /\ UNCHANGED parseVars
    /\ UNCHANGED normVars
    /\ UNCHANGED harnessVars

\* QBic::SizeDiff sizeDiff = bic.diffSizes(oldLibInfo, currentLibInfo);
DiffSizes ==
    /\ pc = "vtables"
    /\ sizeDiff' = diffSizes(oldLib, newLib)
    /\ pc' = "done"
    /\ UNCHANGED <<oldLib, newLib, vtDiff>>
    /\ UNCHANGED parseVars
    /\ UNCHANGED normVars
    /\ UNCHANGED harnessVars

NextDiff == DiffVTables \/ DiffSizes

SpecDiff == InitDiff /\ [][NextDiff]_vars

InitOrder ==
    /\ HarnessIdle
    /\ pc = "start"
    /\ OrderInputs(oldLib, newLib)
    /\ vtDiff = EmptyVTableDiff
    /\ sizeDiff = EmptySizeDiff
    /\ blackList = <<>>
    /\ pointerSize = 8
    /\ ba = <<>>
    /\ source = <<>>
    /\ blk = 1
    /\ info = EmptyInfo
    /\ blockLines = <<>>
    /\ vtableOut = <<>>

SpecOrder == InitOrder /\ [][NextDiff]_vars

(***************************************************************************)
(* Inputs of the parser                                                    *)
(***************************************************************************)

\* Bounds: the number of blocks of a dump, and of patterns in the blacklist.
MaxBlocks == 2
MaxPatterns == 2

\* The blocks of the dumps; the lines of a block are shown separated by |.
\* Class Foo |   size=16 align=8
ClassFooBlock ==
    <<"C", "l", "a", "s", "s", " ", "F", "o", "o", "\n", " ", " ", "s", "i", "z", "e",
      "=", "1", "6", " ", "a", "l", "i", "g", "n", "=", "8">>

\* Class QObject |   size=8 align=8
ClassQObjectBlock ==
    <<"C", "l", "a", "s", "s", " ", "Q", "O", "b", "j", "e", "c", "t", "\n", " ", " ",
      "s", "i", "z", "e", "=", "8", " ", "a", "l", "i", "g", "n", "=", "8">>

\* Class Vec<int> |   size=4 align=4
ClassVecBlock ==
    <<"C", "l", "a", "s", "s", " ", "V", "e", "c", "<", "i", "n", "t", ">", "\n", " ",
      " ", "s", "i", "z", "e", "=", "4", " ", "a", "l", "i", "g", "n", "=", "4">>

\* Vtable for Foo | Foo::_ZTV3Foo: 3u entries | 0 (int (*)(...))0 | 1 Foo::~Foo | 2 Foo::bar
VTableFooBlock ==
    <<"V", "t", "a", "b", "l", "e", " ", "f", "o", "r", " ", "F", "o", "o", "\n", "F",
      "o", "o", ":", ":", "_", "Z", "T", "V", "3", "F", "o", "o", ":", " ", "3", "u",
      " ", "e", "n", "t", "r", "i", "e", "s", "\n", "0", " ", "(", "i", "n", "t", " ",
      "(", "*", ")", "(", ".", ".", ".", ")", ")", "0", "\n", "1", " ", "F", "o", "o",
      ":", ":", "~", "F", "o", "o", "\n", "2", " ", "F", "o", "o", ":", ":", "b", "a",
      "r">>

\* Vtable for Widget | Widget::_ZTV6Widget: 1u entries | 8 Widget::m
VTableWidgetBlock ==
    <<"V", "t", "a", "b", "l", "e", " ", "f", "o", "r", " ", "W", "i", "d", "g", "e",
      "t", "\n", "W", "i", "d", "g", "e", "t", ":", ":", "_", "Z", "T", "V", "6", "W",
      "i", "d", "g", "e", "t", ":", " ", "1", "u", " ", "e", "n", "t", "r", "i", "e",
      "s", "\n", "8", " ", "W", "i", "d", "g", "e", "t", ":", ":", "m">>

\* Vtable for Vec<int> | Vec<int>::_ZTV3VecIiE: 1u entries | 0 -0x10
VTableVecBlock ==
    <<"V", "t", "a", "b", "l", "e", " ", "f", "o", "r", " ", "V", "e", "c", "<", "i",
      "n", "t", ">", "\n", "V", "e", "c", "<", "i", "n", "t", ">", ":", ":", "_", "Z",
      "T", "V", "3", "V", "e", "c", "I", "i", "E", ":", " ", "1", "u", " ", "e", "n",
      "t", "r", "i", "e", "s", "\n", "0", " ", "-", "0", "x", "1", "0">>

\* Class Foo |   size=24 align=8
ClassFooBigBlock ==
    <<"C", "l", "a", "s", "s", " ", "F", "o", "o", "\n", " ", " ", "s", "i", "z", "e",
      "=", "2", "4", " ", "a", "l", "i", "g", "n", "=", "8">>

\* Class Widget::Impl |   size=8 align=8
ClassWidgetImplBlock ==
    <<"C", "l", "a", "s", "s", " ", "W", "i", "d", "g", "e", "t", ":", ":", "I", "m",
      "p", "l", "\n", " ", " ", "s", "i", "z", "e", "=", "8", " ", "a", "l", "i", "g",
      "n", "=", "8">>

\* Vtable for Foo | Foo::_ZTV3Foo: 1u entries | 0 Foo::bar
VTableFooShortBlock ==
    <<"V", "t", "a", "b", "l", "e", " ", "f", "o", "r", " ", "F", "o", "o", "\n", "F",
      "o", "o", ":", ":", "_", "Z", "T", "V", "3", "F", "o", "o", ":", " ", "1", "u",
      " ", "e", "n", "t", "r", "i", "e", "s", "\n", "0", " ", "F", "o", "o", ":", ":",
      "b", "a", "r">>

\* Class Foo |   align=8
ClassFooNoSizeBlock ==
    <<"C", "l", "a", "s", "s", " ", "F", "o", "o", "\n", " ", " ", "a", "l", "i", "g",
      "n", "=", "8">>

\* Vtable for Widget::Impl | Widget::Impl::_ZTVN6Widget4ImplE: 1u entries | 0 0
VTableWidgetImplBlock ==
    <<"V", "t", "a", "b", "l", "e", " ", "f", "o", "r", " ", "W", "i", "d", "g", "e",
      "t", ":", ":", "I", "m", "p", "l", "\n", "W", "i", "d", "g", "e", "t", ":", ":",
      "I", "m", "p", "l", ":", ":", "_", "Z", "T", "V", "N", "6", "W", "i", "d", "g",
      "e", "t", "4", "I", "m", "p", "l", "E", ":", " ", "1", "u", " ", "e", "n", "t",
      "r", "i", "e", "s", "\n", "0", " ", "0">>

BlockPool ==
    { ClassFooBlock, ClassQObjectBlock, ClassVecBlock,
      VTableFooBlock, VTableWidgetBlock, VTableVecBlock }

\* The blocks joined by blank lines.
RECURSIVE joinBlocks(_)
joinBlocks(blocks) ==
    IF Len(blocks) = 0 THEN <<>>
    ELSE IF Len(blocks) = 1 THEN blocks[1]
    ELSE blocks[1] \o BlockSep \o joinBlocks(Tail(blocks))

\* The dumps: at most MaxBlocks blocks of the pool.
Dumps ==
    { joinBlocks(b) : b \in UNION { [1..n -> BlockPool] : n \in 0..MaxBlocks } }

\* The blocks of the dumps with repeated labels, and these dumps.
LabelBlockPool ==
    { ClassFooBlock, ClassFooBigBlock, ClassFooNoSizeBlock,
      VTableFooBlock, VTableFooShortBlock }

LabelDumps ==
    { joinBlocks(b) : b \in UNION { [1..n -> LabelBlockPool] : n \in 0..MaxBlocks } }

\* The blocks of the dumps with qualified labels, and these dumps.
QualifiedBlockPool == { ClassFooBlock, ClassWidgetImplBlock, VTableWidgetImplBlock }

QualifiedDumps ==
    { joinBlocks(b) : b \in UNION { [1..n -> QualifiedBlockPool] : n \in 0..MaxBlocks } }

\* The wildcards given to addBlacklistedClass and removeBlacklistedClass:
\* "Q*", "Widget".
WildcardPool == { <<"Q", "*">>, <<"W", "i", "d", "g", "e", "t">> }

\* The expressions given to addBlacklistedClass: QRegularExpression("Wid").
ExpressionPool ==
    { [anchored |-> FALSE,
       tokens |-> << [kind |-> "char", c |-> "W"], [kind |-> "char", c |-> "i"],
                     [kind |-> "char", c |-> "d"] >>] }

(***************************************************************************)
(* The program: the blacklist is set up, then a dump is parsed block by    *)
(* block.                                                                  *)
(***************************************************************************)

InitParse ==
    /\ HarnessIdle
    /\ pc = "config"
    /\ blackList = <<>>
    /\ pointerSize \in {4, 8}
    /\ ba = <<>>
    /\ source = <<>>
    /\ blk = 1
    /\ info = EmptyInfo
    /\ blockLines = <<>>
    /\ vtableOut = <<>>
    /\ oldLib = EmptyInfo
    /\ newLib = EmptyInfo
    /\ vtDiff = EmptyVTableDiff
    /\ sizeDiff = EmptySizeDiff

\* void QBic::addBlacklistedClass(const QString &wildcard)
AddBlacklistedClass ==
    /\ pc = "config"
    /\ Len(blackList) < MaxPatterns
    /\ \E wildcard \in WildcardPool :
          blackList' = Append(blackList, wildcardExpression(wildcard))
    /\ UNCHANGED <<pc, pointerSize, ba, source, blk, info>>
    /\ UNCHANGED diffVars
    /\ UNCHANGED normVars
    /\ UNCHANGED harnessVars

\* void QBic::addBlacklistedClass(const QRegularExpression &expression)
AddBlacklistedExpression ==
    /\ pc = "config"
    /\ Len(blackList) < MaxPatterns
    /\ \E expression \in ExpressionPool :
          blackList' = Append(blackList, expression)
    /\ UNCHANGED <<pc, pointerSize, ba, source, blk, info>>
    /\ UNCHANGED diffVars
    /\ UNCHANGED normVars
    /\ UNCHANGED harnessVars

\* void QBic::removeBlacklistedClass(const QString &wildcard)
RemoveBlacklistedClass ==
    /\ pc = "config"
    /\ \E wildcard \in WildcardPool :
          blackList' = removeAll(blackList, wildcardExpression(wildcard))
    /\ UNCHANGED <<pc, pointerSize, ba, source, blk, info>>
    /\ UNCHANGED diffVars
    /\ UNCHANGED normVars
    /\ UNCHANGED harnessVars

\* QBic::parseOutput(ba): Info info; source = QString::fromLatin1(ba).split("\n\n");
parseOutputBegin(bytes) ==
    /\ pc = "config"
    /\ ba' = bytes
    /\ source' = split(bytes, BlockSep)
    /\ blk' = 1
    /\ info' = EmptyInfo
    /\ pc' = "parse"
    /\ UNCHANGED <<blackList, pointerSize>>
    /\ UNCHANGED diffVars
    /\ UNCHANGED normVars
    /\ UNCHANGED harnessVars

\* parseOutput is called on a dump.
ParseOutputBegin == \E bytes \in Dumps : parseOutputBegin(bytes)

\* parseOutput is called on a dump with repeated labels.
ParseOutputBeginLabels == \E bytes \in LabelDumps : parseOutputBegin(bytes)

\* parseOutput is called on a dump with qualified labels.
ParseOutputBeginQualified == \E bytes \in QualifiedDumps : parseOutputBegin(bytes)

\* A faulty result for a file that cannot be opened: what the last parse left.
unopenedFileInfoStale == info

\* if (!f.open(QIODevice::ReadOnly | QIODevice::Text)) return Info();
unopenedFileInfo == EmptyInfo

\* QBic::parseFile(fileName) of a file that does not exist or cannot be opened, called
\* on a QBic that is not parsing: before any parse or after one has returned.
ParseFileUnopened ==
    /\ pc \in {"config", "parsed"}
    /\ info' = unopenedFileInfo
    /\ pc' = "unopened"
    /\ UNCHANGED <<blackList, pointerSize, ba, source, blk>>
    /\ UNCHANGED diffVars
    /\ UNCHANGED normVars
    /\ UNCHANGED harnessVars

\* One pass of the foreach of parseOutput.
ParseBlock ==
    /\ pc = "parse"
    /\ blk <= Len(source)
    /\ info' \in parseBlock(info, source[blk])
    /\ blk' = blk + 1
    /\ UNCHANGED <<pc, blackList, pointerSize, ba, source>>
    /\ UNCHANGED diffVars
    /\ UNCHANGED normVars
    /\ UNCHANGED harnessVars

\* return info;
ParseOutputReturn ==
    /\ pc = "parse"
    /\ blk > Len(source)
    /\ pc' = "parsed"
    /\ UNCHANGED <<blackList, pointerSize, ba, source, blk, info>>
    /\ UNCHANGED diffVars
    /\ UNCHANGED normVars
    /\ UNCHANGED harnessVars

NextParse ==
    \/ AddBlacklistedClass
    \/ AddBlacklistedExpression
    \/ RemoveBlacklistedClass
    \/ ParseOutputBegin
    \/ ParseFileUnopened
    \/ ParseBlock
    \/ ParseOutputReturn

SpecParse == InitParse /\ [][NextParse]_vars

NextLabels ==
    \/ AddBlacklistedClass
    \/ AddBlacklistedExpression
    \/ RemoveBlacklistedClass
    \/ ParseOutputBeginLabels
    \/ ParseBlock
    \/ ParseOutputReturn

SpecLabels == InitParse /\ [][NextLabels]_vars

NextQualified ==
    \/ AddBlacklistedClass
    \/ AddBlacklistedExpression
    \/ RemoveBlacklistedClass
    \/ ParseOutputBeginQualified
    \/ ParseBlock
    \/ ParseOutputReturn

SpecQualified == InitParse /\ [][NextQualified]_vars

(***************************************************************************)
(* The program: a dump with blocks the parser cannot read is parsed, the   *)
(* blacklist left empty.                                                   *)
(***************************************************************************)

\* Class Foo |   size=24 align=8 base size=20
ClassFooTwoSizesBlock ==
    <<"C", "l", "a", "s", "s", " ", "F", "o", "o", "\n", " ", " ", "s", "i", "z", "e",
      "=", "2", "4", " ", "a", "l", "i", "g", "n", "=", "8", " ", "b", "a", "s", "e",
      " ", "s", "i", "z", "e", "=", "2", "0">>

\* Vtable for Foo | Foo::_ZTV3Foo: 3u entries | x Foo::a | 1 Foo::b | 2 0xzz
VTableFooBadLinesBlock ==
    <<"V", "t", "a", "b", "l", "e", " ", "f", "o", "r", " ", "F", "o", "o", "\n", "F",
      "o", "o", ":", ":", "_", "Z", "T", "V", "3", "F", "o", "o", ":", " ", "3", "u",
      " ", "e", "n", "t", "r", "i", "e", "s", "\n", "x", " ", "F", "o", "o", ":", ":",
      "a", "\n", "1", " ", "F", "o", "o", ":", ":", "b", "\n", "2", " ", "0", "x", "z",
      "z">>

\* Vtable for Foo | Foo::_ZTV3Foo: 0u entries
VTableFooEmptyBlock ==
    <<"V", "t", "a", "b", "l", "e", " ", "f", "o", "r", " ", "F", "o", "o", "\n", "F",
      "o", "o", ":", ":", "_", "Z", "T", "V", "3", "F", "o", "o", ":", " ", "0", "u",
      " ", "e", "n", "t", "r", "i", "e", "s">>

\* Vtable for Foo | Foo::_ZTV3Foo: 1u entries | x Foo::a
VTableFooAllBadBlock ==
    <<"V", "t", "a", "b", "l", "e", " ", "f", "o", "r", " ", "F", "o", "o", "\n", "F",
      "o", "o", ":", ":", "_", "Z", "T", "V", "3", "F", "o", "o", ":", " ", "1", "u",
      " ", "e", "n", "t", "r", "i", "e", "s", "\n", "x", " ", "F", "o", "o", ":", ":",
      "a">>

\* Class Bar
ClassBarOneLineBlock ==
    <<"C", "l", "a", "s", "s", " ", "B", "a", "r">>

\* Struct Bar |   size=8 align=8
StructBarBlock ==
    <<"S", "t", "r", "u", "c", "t", " ", "B", "a", "r", "\n", " ", " ", "s", "i", "z",
      "e", "=", "8", " ", "a", "l", "i", "g", "n", "=", "8">>

\* an empty line, then Class Widget |   size=8 align=8: with the separator in front,
\* three newlines
BlankThenClassWidgetBlock ==
    <<"\n", "C", "l", "a", "s", "s", " ", "W", "i", "d", "g", "e", "t", "\n", " ", " ",
      "s", "i", "z", "e", "=", "8", " ", "a", "l", "i", "g", "n", "=", "8">>

\* an empty line, then Vtable for Widget | Widget::_ZTV6Widget: 1u entries | 8 Widget::m
BlankThenVTableWidgetBlock ==
    <<"\n", "V", "t", "a", "b", "l", "e", " ", "f", "o", "r", " ", "W", "i", "d", "g",
      "e", "t", "\n", "W", "i", "d", "g", "e", "t", ":", ":", "_", "Z", "T", "V", "6",
      "W", "i", "d", "g", "e", "t", ":", " ", "1", "u", " ", "e", "n", "t", "r", "i",
      "e", "s", "\n", "8", " ", "W", "i", "d", "g", "e", "t", ":", ":", "m">>

\* two empty lines, then Class Widget |   size=8 align=8: with the separator in
\* front, four newlines
TwoBlanksThenClassWidgetBlock ==
    <<"\n", "\n", "C", "l", "a", "s", "s", " ", "W", "i", "d", "g", "e", "t", "\n",
      " ", " ", "s", "i", "z", "e", "=", "8", " ", "a", "l", "i", "g", "n", "=", "8">>

\* Class Foo |   size=4294967296 align=8
ClassFooHugeBlock ==
    <<"C", "l", "a", "s", "s", " ", "F", "o", "o", "\n", " ", " ", "s", "i", "z", "e",
      "=", "4", "2", "9", "4", "9", "6", "7", "2", "9", "6", " ", "a", "l", "i", "g",
      "n", "=", "8">>

\* The pieces of the dumps with unreadable blocks, and these dumps: at most MaxBlocks
\* pieces joined by the separator.
RecoverBlockPool ==
    { ClassFooBlock, ClassFooNoSizeBlock, ClassFooTwoSizesBlock, ClassFooHugeBlock,
      VTableFooShortBlock, VTableFooBadLinesBlock, VTableFooEmptyBlock,
      VTableFooAllBadBlock, ClassBarOneLineBlock, StructBarBlock,
      BlankThenClassWidgetBlock, BlankThenVTableWidgetBlock,
      TwoBlanksThenClassWidgetBlock }

RecoverDumps ==
    { joinBlocks(b) : b \in UNION { [1..n -> RecoverBlockPool] : n \in 0..MaxBlocks } }

\* parseOutput is called on a dump with unreadable blocks.
ParseOutputBeginRecover == \E bytes \in RecoverDumps : parseOutputBegin(bytes)

NextRecover ==
    \/ ParseOutputBeginRecover
    \/ ParseBlock
    \/ ParseOutputReturn

SpecRecover == InitParse /\ [][NextRecover]_vars

(***************************************************************************)
(* Inputs of the normalizer                                                *)
(***************************************************************************)

\* Bound: the number of entry lines of a block.
MaxLines == 2

\* Vtable for Foo
LabelLineFoo ==
    <<"V", "t", "a", "b", "l", "e", " ", "f", "o", "r", " ", "F", "o", "o">>

\* Foo::_ZTV3Foo: 3u entries
HeaderFoo ==
    <<"F", "o", "o", ":", ":", "_", "Z", "T", "V", "3", "F", "o", "o", ":", " ", "3",
      "u", " ", "e", "n", "t", "r", "i", "e", "s">>

\* Outer::Inner::_ZTVN5Outer5InnerE: 3u entries
HeaderInner ==
    <<"O", "u", "t", "e", "r", ":", ":", "I", "n", "n", "e", "r", ":", ":", "_", "Z",
      "T", "V", "N", "5", "O", "u", "t", "e", "r", "5", "I", "n", "n", "e", "r", "E",
      ":", " ", "3", "u", " ", "e", "n", "t", "r", "i", "e", "s">>

\* Outer::Inner::_ZTVN5Outer5Inner: 3u entries
HeaderInnerNoE ==
    <<"O", "u", "t", "e", "r", ":", ":", "I", "n", "n", "e", "r", ":", ":", "_", "Z",
      "T", "V", "N", "5", "O", "u", "t", "e", "r", "5", "I", "n", "n", "e", "r", ":",
      " ", "3", "u", " ", "e", "n", "t", "r", "i", "e", "s">>

\* Foo: 3u entries
HeaderPlain ==
    <<"F", "o", "o", ":", " ", "3", "u", " ", "e", "n", "t", "r", "i", "e", "s">>

\* 0     (int (*)(...))0
LineOffset ==
    <<"0", " ", " ", " ", " ", " ", "(", "i", "n", "t", " ", "(", "*", ")", "(", ".",
      ".", ".", ")", ")", "0">>

\* 1 Foo::~Foo
LineDestructor ==
    <<"1", " ", "F", "o", "o", ":", ":", "~", "F", "o", "o">>

\* 2 Foo::bar
LineMethod ==
    <<"2", " ", "F", "o", "o", ":", ":", "b", "a", "r">>

\* 3 Foo::_ZThn16_N3FooD0Ev
LineThunk16D0 ==
    <<"3", " ", "F", "o", "o", ":", ":", "_", "Z", "T", "h", "n", "1", "6", "_", "N",
      "3", "F", "o", "o", "D", "0", "E", "v">>

\* 3 Foo::_ZThn32_N3FooD0Ev
LineThunk32D0 ==
    <<"3", " ", "F", "o", "o", ":", ":", "_", "Z", "T", "h", "n", "3", "2", "_", "N",
      "3", "F", "o", "o", "D", "0", "E", "v">>

\* 3 Foo::_ZThn40_N3FooD0Ev
LineThunk40D0 ==
    <<"3", " ", "F", "o", "o", ":", ":", "_", "Z", "T", "h", "n", "4", "0", "_", "N",
      "3", "F", "o", "o", "D", "0", "E", "v">>

\* 4 Foo::_ZThn16_N3FooD1Ev
LineThunk16D1 ==
    <<"4", " ", "F", "o", "o", ":", ":", "_", "Z", "T", "h", "n", "1", "6", "_", "N",
      "3", "F", "o", "o", "D", "1", "E", "v">>

\* 4 Foo::_ZThn32_N3FooD1Ev
LineThunk32D1 ==
    <<"4", " ", "F", "o", "o", ":", ":", "_", "Z", "T", "h", "n", "3", "2", "_", "N",
      "3", "F", "o", "o", "D", "1", "E", "v">>

\* 4 Foo::_ZThn40_N3FooD1Ev
LineThunk40D1 ==
    <<"4", " ", "F", "o", "o", ":", ":", "_", "Z", "T", "h", "n", "4", "0", "_", "N",
      "3", "F", "o", "o", "D", "1", "E", "v">>

\* 5 NS::Foo::~Foo
LineOuterDestructor ==
    <<"5", " ", "N", "S", ":", ":", "F", "o", "o", ":", ":", "~", "F", "o", "o">>

\* 6 NS::Foo::_ZThn16_N3FooD0Ev
LineOuterThunk ==
    <<"6", " ", "N", "S", ":", ":", "F", "o", "o", ":", ":", "_", "Z", "T", "h", "n",
      "1", "6", "_", "N", "3", "F", "o", "o", "D", "0", "E", "v">>

\* 7 Outer::Inner::~Inner
LineInnerDestructor ==
    <<"7", " ", "O", "u", "t", "e", "r", ":", ":", "I", "n", "n", "e", "r", ":", ":",
      "~", "I", "n", "n", "e", "r">>

\* x Foo::bar
LineNoIndex ==
    <<"x", " ", "F", "o", "o", ":", ":", "b", "a", "r">>

\* 8 0xzz
LineBadToken ==
    <<"8", " ", "0", "x", "z", "z">>

\* The second lines of the blocks: the label of the class, then the count of entries.
HeaderPool == {HeaderFoo, HeaderInner, HeaderInnerNoE, HeaderPlain}

\* The entry lines of the blocks of label Foo::_ZTV3Foo, and those of the blocks of the
\* other labels.
ThunkLines ==
    { LineThunk16D0, LineThunk32D0, LineThunk40D0,
      LineThunk16D1, LineThunk32D1, LineThunk40D1 }
LinePool ==
    { LineOffset, LineDestructor, LineMethod, LineOuterDestructor, LineOuterThunk,
      LineNoIndex, LineBadToken } \cup ThunkLines
NestedLinePool == { LineDestructor, LineInnerDestructor, LineMethod }

\* The blocks: a first line, a second line among headers, at most MaxLines entry lines
\* among lines.
BlocksOver(headers, lines) ==
    { <<LabelLineFoo, h>> \o l :
        h \in headers, l \in UNION { [1..n -> lines] : n \in 0..MaxLines } }
VTableBlocks ==
    BlocksOver({HeaderFoo}, LinePool) \cup BlocksOver(HeaderPool \ {HeaderFoo}, NestedLinePool)

(***************************************************************************)
(* The program: the blacklist operations, called on a blacklist that       *)
(* earlier calls of addBlacklistedClass have filled.                       *)
(***************************************************************************)

\* Bound: the number of patterns the blacklist holds at the start.
MaxStored == 4

\* The patterns the calls of addBlacklistedClass store, and the blacklists they build.
StoredPatterns == { wildcardExpression(w) : w \in WildcardPool } \cup ExpressionPool
StoredLists == UNION { [1..n -> StoredPatterns] : n \in 0..MaxStored }

InitBlacklist ==
    /\ HarnessIdle
    /\ pc = "config"
    /\ blackList \in StoredLists
    /\ pointerSize \in {4, 8}
    /\ ba = <<>>
    /\ source = <<>>
    /\ blk = 1
    /\ info = EmptyInfo
    /\ blockLines = <<>>
    /\ vtableOut = <<>>
    /\ oldLib = EmptyInfo
    /\ newLib = EmptyInfo
    /\ vtDiff = EmptyVTableDiff
    /\ sizeDiff = EmptySizeDiff

NextBlacklist ==
    \/ AddBlacklistedClass
    \/ AddBlacklistedExpression
    \/ RemoveBlacklistedClass

SpecBlacklist == InitBlacklist /\ [][NextBlacklist]_vars

(***************************************************************************)
(* The program: normalizedVTable is called on the lines of one block.      *)
(***************************************************************************)

InitNormalize ==
    /\ HarnessIdle
    /\ pc = "block"
    /\ blockLines \in VTableBlocks
    /\ vtableOut = <<>>
    /\ pointerSize \in {4, 8}
    /\ blackList = <<>>
    /\ ba = <<>>
    /\ source = <<>>
    /\ blk = 1
    /\ info = EmptyInfo
    /\ oldLib = EmptyInfo
    /\ newLib = EmptyInfo
    /\ vtDiff = EmptyVTableDiff
    /\ sizeDiff = EmptySizeDiff

\* normalizedVTable(entry)
NormalizeVTable ==
    /\ pc = "block"
    /\ vtableOut' = normalizedVTable(blockLines)
    /\ pc' = "normalized"
    /\ UNCHANGED blockLines
    /\ UNCHANGED harnessVars
    /\ UNCHANGED parseVars
    /\ UNCHANGED diffVars

NextNormalize == NormalizeVTable

SpecNormalize == InitNormalize /\ [][NextNormalize]_vars

(***************************************************************************)
(* The program: normalizedVTable is called on a block of Foo whose entry   *)
(* lines have casts, signatures and hexadecimal tokens.                    *)
(***************************************************************************)

\* 0 -0x10
TokenNegHex ==
    <<"0", " ", "-", "0", "x", "1", "0">>

\* 1 0x10u
TokenUnitHex ==
    <<"1", " ", "0", "x", "1", "0", "u">>

\* 2 0xffffffff
TokenAllOnes ==
    <<"2", " ", "0", "x", "f", "f", "f", "f", "f", "f", "f", "f">>

\* 3 0x80000000
TokenHighBit ==
    <<"3", " ", "0", "x", "8", "0", "0", "0", "0", "0", "0", "0">>

\* 4 0x100000001
TokenAboveWord ==
    <<"4", " ", "0", "x", "1", "0", "0", "0", "0", "0", "0", "0", "1">>

\* 5 0x8000000000000000
TokenTooWide ==
    <<"5", " ", "0", "x", "8", "0", "0", "0", "0", "0", "0", "0", "0", "0", "0", "0",
      "0", "0", "0", "0">>

\* 6 010
TokenNoPrefix ==
    <<"6", " ", "0", "1", "0">>

\* 7 -0x80000001
TokenBelowIntMin ==
    <<"7", " ", "-", "0", "x", "8", "0", "0", "0", "0", "0", "0", "1">>

\* 8 0uu
TokenTwoUnits ==
    <<"8", " ", "0", "u", "u">>

\* 9 (int (*)(...))0
TokenCastZero ==
    <<"9", " ", "(", "i", "n", "t", " ", "(", "*", ")", "(", ".", ".", ".", ")", ")",
      "0">>

\* 10 (int (*)(...))(& _ZTI3Foo)
TokenCastTypeInfo ==
    <<"1", "0", " ", "(", "i", "n", "t", " ", "(", "*", ")", "(", ".", ".", ".", ")",
      ")", "(", "&", " ", "_", "Z", "T", "I", "3", "F", "o", "o", ")">>

\* 11 (int (*)(...))Foo::bar
TokenCastMethod ==
    <<"1", "1", " ", "(", "i", "n", "t", " ", "(", "*", ")", "(", ".", ".", ".", ")",
      ")", "F", "o", "o", ":", ":", "b", "a", "r">>

\* 12 Foo::baz(int)
TokenSignature ==
    <<"1", "2", " ", "F", "o", "o", ":", ":", "b", "a", "z", "(", "i", "n", "t", ")">>

\* 13 Foo::qux
TokenPlain ==
    <<"1", "3", " ", "F", "o", "o", ":", ":", "q", "u", "x">>

\* 14 (int (*)(...))-16
TokenCastDecimal ==
    <<"1", "4", " ", "(", "i", "n", "t", " ", "(", "*", ")", "(", ".", ".", ".", ")",
      ")", "-", "1", "6">>

TokenLinePool ==
    { TokenNegHex, TokenUnitHex, TokenAllOnes, TokenHighBit,
      TokenAboveWord, TokenTooWide, TokenNoPrefix, TokenBelowIntMin,
      TokenTwoUnits, TokenCastZero, TokenCastTypeInfo, TokenCastMethod,
      TokenSignature, TokenPlain, TokenCastDecimal }

TokenBlocks == BlocksOver({HeaderFoo}, TokenLinePool)

InitTokens ==
    /\ HarnessIdle
    /\ pc = "block"
    /\ blockLines \in TokenBlocks
    /\ vtableOut = <<>>
    /\ pointerSize \in {4, 8}
    /\ blackList = <<>>
    /\ ba = <<>>
    /\ source = <<>>
    /\ blk = 1
    /\ info = EmptyInfo
    /\ oldLib = EmptyInfo
    /\ newLib = EmptyInfo
    /\ vtDiff = EmptyVTableDiff
    /\ sizeDiff = EmptySizeDiff

SpecTokens == InitTokens /\ [][NextNormalize]_vars

(***************************************************************************)
(* The test harness tst_Bic: sizesAndVTables_data, sizesAndVTables and     *)
(* getCurrentInfo.                                                         *)
(***************************************************************************)

\* Bound: the minor version of the module under test.
MaxMinor == 2

\* QT_VERSION_MAJOR, or the major version of MODULE_VERSION.
MajorVersion == 5

\* modules.keys(): "QtCore", "QtGui".
QtCore == <<"Q", "t", "C", "o", "r", "e">>
QtGui == <<"Q", "t", "G", "u", "i">>
ModuleKeys == <<QtCore, QtGui>>

\* "4.4", "QGraphicsProxyWidget", "tagIMECHARPOSITION", "tagRECONVERTSTRING"
ExemptedTag == <<"4", ".", "4">>
QGraphicsProxyWidget ==
    <<"Q", "G", "r", "a", "p", "h", "i", "c", "s", "P", "r", "o", "x", "y", "W", "i", "d",
  "g", "e", "t">>
ImeCharPosition ==
    <<"t", "a", "g", "I", "M", "E", "C", "H", "A", "R", "P", "O", "S", "I", "T", "I", "O",
  "N">>
ReconvertString ==
    <<"t", "a", "g", "R", "E", "C", "O", "N", "V", "E", "R", "T", "S", "T", "R", "I", "N",
  "G">>

\* QTest::newRow(key.toLatin1() + ":5." + QByteArray::number(i)) << key << path
\* << (i == minor && patch); the path is shown without its directory and suffix.
dataRow(key, major, minor, patch, i) ==
    [tag |-> key \o <<":", "5", ".">> \o number(i),
     libName |-> key,
     oldLib |-> <<"%", "1", ".">> \o number(major) \o <<".">> \o number(i)
                \o <<".", "0", ".", "t", "x", "t">>,
     isPatchRelease |-> (i = minor /\ patch # 0)]

\* for (int i = 0; i <= minor; ++i) if (i != minor || patch) ...
RECURSIVE versionRows(_, _, _, _, _)
versionRows(key, major, minor, patch, i) ==
    IF i > minor THEN <<>>
    ELSE (IF i # minor \/ patch # 0 THEN <<dataRow(key, major, minor, patch, i)>>
          ELSE <<>>)
         \o versionRows(key, major, minor, patch, i + 1)

\* for (int i = 0, end = keys.size(); i < end; i++) ...
RECURSIVE moduleRows(_, _, _, _, _)
moduleRows(keys, major, minor, patch, k) ==
    IF k > Len(keys) THEN <<>>
    ELSE versionRows(keys[k], major, minor, patch, 0)
         \o moduleRows(keys, major, minor, patch, k + 1)

\* tst_Bic::sizesAndVTables_data: the rows in the order they are added; none when
\* minor is 0 (QSKIP).
sizesAndVTables_data(keys, major, minor, patch) ==
    IF minor = 0 THEN <<>> ELSE moduleRows(keys, major, minor, patch, 1)

\* The snapshots that parsing a reference file or the compiler's dump gives.
\* Vtable entries "0 A::m", "1 A::n", "0 B::m", "0 0".
EntryAm == <<"0", " ", "A", ":", ":", "m">>
EntryAn == <<"1", " ", "A", ":", ":", "n">>
EntryBm == <<"0", " ", "B", ":", ":", "m">>
EntryZero == <<"0", " ", "0">>
snapshot(vtables, sizes) == [classSizes |-> sizes, classVTables |-> vtables]
ProxyVTable(entries) == [key |-> QGraphicsProxyWidget, value |-> entries]
SizeOf(name, size) == [key |-> name, value |-> size]
InfoBase == snapshot(<<ProxyVTable(<<EntryAm>>)>>, <<SizeOf(Foo, 16)>>)
InfoLonger == snapshot(<<ProxyVTable(<<EntryAm, EntryAn>>)>>, <<SizeOf(Foo, 16)>>)
InfoReimp == snapshot(<<ProxyVTable(<<EntryBm>>)>>, <<SizeOf(Foo, 16)>>)
InfoBig == snapshot(<<ProxyVTable(<<EntryAm>>)>>, <<SizeOf(Foo, 24)>>)
InfoIme ==
    snapshot(<<ProxyVTable(<<EntryAm>>)>>, <<SizeOf(Foo, 16), SizeOf(ImeCharPosition, 8)>>)
InfoWithBar ==
    snapshot(<<ProxyVTable(<<EntryAm>>), [key |-> Bar, value |-> <<EntryZero>>]>>,
             <<SizeOf(Foo, 16), SizeOf(Bar, 8)>>)
InfoNoSizes == snapshot(<<ProxyVTable(<<EntryAm>>)>>, <<>>)
InfoNoVTables == snapshot(<<>>, <<SizeOf(Foo, 16)>>)

\* bic.parseFile(oldLibFileName) of the reference files, and bic.parseFile of the
\* dumps the compiler writes.
OldInfoPool ==
    { InfoBase, InfoLonger, InfoReimp, InfoBig, InfoIme, InfoWithBar, InfoNoVTables }
CompiledInfoPool == { InfoBase, InfoWithBar, InfoNoSizes }

\* The ways the compiler run fails with return QBic::Info(): waitForFinished times
\* out, the exit code is not 0, the standard error is not empty.
CompilerFailures == {"timeout", "exit code", "stderr"}

\* getCurrentInfo from the start of the compiler on, for the cache with the entry of
\* the library in it: the three failures leave the entry as it is, qFatal ends the
\* program, and a dump parsed is assigned to the entry.
compilerOutcomes(c, libName) ==
    { [cache |-> c, info |-> EmptyInfo, ran |-> TRUE, fatal |-> FALSE] :
        failure \in CompilerFailures }
    \cup { [cache |-> c, info |-> EmptyInfo, ran |-> TRUE, fatal |-> TRUE] }
    \cup UNION { { [cache |-> h, info |-> parsed, ran |-> TRUE, fatal |-> FALSE] :
                     h \in hashInsert(c, libName, parsed) } :
                 parsed \in CompiledInfoPool }

\* QBic::Info &inf = cachedCurrentInfo[libName]: the caches with the entry of the
\* library, a default one when the cache did not have it.
withEntry(cache, libName) ==
    IF hashContains(cache, libName) THEN {cache}
    ELSE hashInsert(cache, libName, EmptyInfo)

\* A faulty getCurrentInfo that does not look at the cache.
getCurrentInfoNoCache(cache, libName) ==
    UNION { compilerOutcomes(c, libName) : c \in withEntry(cache, libName) }

\* tst_Bic::getCurrentInfo(libName) on the cache given: the cache after the call, the
\* snapshot returned, whether the compiler ran, and whether the call ended in qFatal
\* (no *.class file, or more than one).
getCurrentInfo(cache, libName) ==
    IF hashContains(cache, libName) /\ hashValue(cache, libName).classSizes # <<>>
    THEN { [cache |-> cache, info |-> hashValue(cache, libName),
            ran |-> FALSE, fatal |-> FALSE] }
    ELSE UNION { compilerOutcomes(c, libName) : c \in withEntry(cache, libName) }

\* A faulty exemption that does not look at the data tag.
modifiedExemptedAnyTag(diff, tag) ==
    /\ Len(diff.modifiedVTables) = 1
    /\ diff.modifiedVTables[1][1] = QGraphicsProxyWidget

\* The modified vtables are let through: exactly one pair, the data tag 4.4, and
\* QGraphicsProxyWidget as the first of the pair.
modifiedExempted(diff, tag) ==
    /\ Len(diff.modifiedVTables) = 1
    /\ tag = ExemptedTag
    /\ diff.modifiedVTables[1][1] = QGraphicsProxyWidget

\* sizeDiff.removed.removeAll(...) twice, under #ifdef Q_CC_MINGW.
withoutImmClasses(sdiff, mingw) ==
    IF mingw
    THEN [sdiff EXCEPT !.removed = removeAll(removeAll(@, ImeCharPosition),
                                             ReconvertString)]
    ELSE sdiff

\* A faulty isFailed that counts added vtables in every row.
isFailedAddedAlways(diff, sdiff, tag, isPatchRelease) ==
    \/ diff.removedVTables # <<>>
    \/ diff.modifiedVTables # <<>> /\ ~modifiedExempted(diff, tag)
    \/ diff.addedVTables # <<>>
    \/ isPatchRelease /\ diff.reimpMethods # <<>>
    \/ sdiff.mismatch # <<>>
    \/ sdiff.removed # <<>>
    \/ isPatchRelease /\ sdiff.added # <<>>

\* isFailed at the end of sizesAndVTables; sdiff is sizeDiff as the tests read it.
isFailed(diff, sdiff, tag, isPatchRelease) ==
    \/ diff.removedVTables # <<>>
    \/ diff.modifiedVTables # <<>> /\ ~modifiedExempted(diff, tag)
    \/ isPatchRelease /\ diff.addedVTables # <<>>
    \/ isPatchRelease /\ diff.reimpMethods # <<>>
    \/ sdiff.mismatch # <<>>
    \/ sdiff.removed # <<>>
    \/ isPatchRelease /\ sdiff.added # <<>>

InitHarness ==
    /\ pc = "data"
    /\ mingwBuild \in BOOLEAN
    /\ rows = <<>>
    /\ row = NoRow
    /\ verdict = "none"
    /\ cachedCurrentInfo = <<>>
    /\ returned = EmptyInfo
    /\ compilerRuns = 0
    /\ calls = 0
    /\ oldLib = EmptyInfo
    /\ newLib = EmptyInfo
    /\ vtDiff = EmptyVTableDiff
    /\ sizeDiff = EmptySizeDiff
    /\ blackList = <<>>
    /\ pointerSize = 8
    /\ ba = <<>>
    /\ source = <<>>
    /\ blk = 1
    /\ info = EmptyInfo
    /\ blockLines = <<>>
    /\ vtableOut = <<>>

\* tst_Bic::sizesAndVTables_data(): QTest runs sizesAndVTables on the rows in order,
\* and on none after QSKIP.
SizesAndVTablesData ==
    /\ pc = "data"
    /\ \E minor \in 0..MaxMinor, patch \in 0..1 :
          /\ rows' = sizesAndVTables_data(ModuleKeys, MajorVersion, minor, patch)
          /\ pc' = IF minor = 0 THEN "done" ELSE "rows"
    /\ UNCHANGED <<row, verdict, cachedCurrentInfo, returned, compilerRuns, calls,
                   mingwBuild>>
    /\ UNCHANGED diffVars
    /\ UNCHANGED parseVars
    /\ UNCHANGED normVars

\* tst_Bic::sizesAndVTables() on the next row, up to the call of getCurrentInfo:
\* QSKIP without a reference file, QVERIFY on the vtables of the reference.
SizesAndVTablesBegin ==
    /\ pc = "rows"
    /\ rows # <<>>
    /\ row' = Head(rows)
    /\ rows' = Tail(rows)
    /\ \E exists \in BOOLEAN, old \in OldInfoPool :
          IF Head(rows).oldLib = <<>> \/ ~exists
          THEN oldLib' = EmptyInfo /\ verdict' = "skip" /\ pc' = "rows"
          ELSE /\ oldLib' = old
               /\ IF old.classVTables = <<>>
                  THEN verdict' = "fail" /\ pc' = "rows"
                  ELSE verdict' = "running" /\ pc' = "current"
    /\ newLib' = EmptyInfo
    /\ vtDiff' = EmptyVTableDiff
    /\ sizeDiff' = EmptySizeDiff
    /\ UNCHANGED <<cachedCurrentInfo, returned, compilerRuns, calls, mingwBuild>>
    /\ UNCHANGED parseVars
    /\ UNCHANGED normVars

\* const QBic::Info currentLibInfo = getCurrentInfo(libName);
GetCurrentInfo ==
    /\ pc = "current"
    /\ \E call \in getCurrentInfo(cachedCurrentInfo, row.libName) :
          /\ cachedCurrentInfo' = call.cache
          /\ compilerRuns' = compilerRuns + (IF call.ran THEN 1 ELSE 0)
          /\ calls' = calls + 1
          /\ returned' = IF call.fatal THEN returned ELSE call.info
          /\ pc' = IF call.fatal THEN "aborted" ELSE "compare"
    /\ UNCHANGED <<rows, row, verdict, mingwBuild>>
    /\ UNCHANGED diffVars
    /\ UNCHANGED parseVars
    /\ UNCHANGED normVars

\* tst_Bic::sizesAndVTables() from QVERIFY on the vtables of the current snapshot to
\* its end.
SizesAndVTablesCompare ==
    /\ pc = "compare"
    /\ newLib' = returned
    /\ IF returned.classVTables = <<>>
       THEN /\ verdict' = "fail"
            /\ UNCHANGED <<vtDiff, sizeDiff>>
       ELSE /\ vtDiff' = diffVTables(oldLib, returned)
            /\ sizeDiff' = withoutImmClasses(diffSizes(oldLib, returned), mingwBuild)
            /\ verdict' = IF isFailed(vtDiff', sizeDiff', row.tag, row.isPatchRelease)
                          THEN "fail" ELSE "pass"
    /\ pc' = "rows"
    /\ UNCHANGED <<rows, row, cachedCurrentInfo, returned, compilerRuns, calls,
                   mingwBuild, oldLib>>
    /\ UNCHANGED parseVars
    /\ UNCHANGED normVars

NextHarness ==
    \/ SizesAndVTablesData
    \/ SizesAndVTablesBegin
    \/ GetCurrentInfo
    \/ SizesAndVTablesCompare

SpecHarness == InitHarness /\ [][NextHarness]_vars

(***************************************************************************)
(* Properties of the differ                                                *)
(***************************************************************************)

\* The classes with a vtable in both snapshots, those among them whose two vtables
\* have the same length, and the two vtables of a class.
OldVT(k) == hashValue(oldLib.classVTables, k)
NewVT(k) == hashValue(newLib.classVTables, k)
OldVTKeys == Range(hashKeys(oldLib.classVTables))
NewVTKeys == Range(hashKeys(newLib.classVTables))
CommonClasses == OldVTKeys \cap NewVTKeys
SameLengthClasses == { k \in CommonClasses : Len(OldVT(k)) = Len(NewVT(k)) }
OldSizeKeys == Range(hashKeys(oldLib.classSizes))
NewSizeKeys == Range(hashKeys(newLib.classSizes))

\* The positions of the vtables compared entry by entry, as <<class, index>>.
ComparedPositions ==
    UNION { { <<k, i>> : i \in 1..Len(NewVT(k)) } : k \in SameLengthClasses }
OldEntry(q) == OldVT(q[1])[q[2]]
NewEntry(q) == NewVT(q[1])[q[2]]
PairAt(q) == <<OldEntry(q), NewEntry(q)>>

\* The text after the last "::" of an entry.
MethodName(e) == mid(e, lastIndexOf(e, ScopeSep) + 2)

\* How often x occurs in the list s.
Count(s, x) == Cardinality({ i \in 1..Len(s) : s[i] = x })

VTablesDiffed == pc \in {"vtables", "done"}
SizesDiffed == pc = "done"
InReimp(p) == p \in Range(vtDiff.reimpMethods)
InModified(p) == p \in Range(vtDiff.modifiedVTables)

\* C1: comparing a snapshot with itself yields four empty vtable lists and three
\* empty size lists.
C1_SelfDiffEmpty ==
    oldLib = newLib =>
        /\ VTablesDiffed => vtDiff = EmptyVTableDiff
        /\ SizesDiffed => sizeDiff = EmptySizeDiff

C1_Witness ==
    /\ pc = "done"
    /\ oldLib = newLib
    /\ Len(oldLib.classVTables) = 2
    /\ \E i \in 1..2 : Len(oldLib.classVTables[i].value) = 2
    /\ Len(oldLib.classSizes) > 0

\* C2 as stated: an unequal position of a class with equally long vtables whose NEW
\* entry ends with __cxa_pure_virtual is in reimpMethods and not in modifiedVTables.
C2_NewPureVirtualIsReimp ==
    VTablesDiffed =>
        \A q \in ComparedPositions :
            (OldEntry(q) # NewEntry(q) /\ endsWith(NewEntry(q), PureVirtual))
                => (InReimp(PairAt(q)) /\ ~InModified(PairAt(q)))

\* C2 as amended: an unequal position of a class with equally long vtables whose OLD
\* entry ends with __cxa_pure_virtual is in reimpMethods and not in modifiedVTables.
C2_OldPureVirtualIsReimp ==
    VTablesDiffed =>
        \A q \in ComparedPositions :
            (OldEntry(q) # NewEntry(q) /\ endsWith(OldEntry(q), PureVirtual))
                => (InReimp(PairAt(q)) /\ ~InModified(PairAt(q)))

C2_Witness ==
    /\ pc = "vtables"
    /\ \E q \in ComparedPositions :
          /\ OldEntry(q) # NewEntry(q)
          /\ endsWith(OldEntry(q), PureVirtual)
          /\ ~contains(OldEntry(q), ScopeSep)
          /\ InReimp(PairAt(q))

\* The qualified-name rule for a position: Mismatch when an entry has no "::" or the
\* method names differ, Reimp when both have "::" and the method names are equal.
QualifiedNameRule(q) ==
    IF \/ ~contains(OldEntry(q), ScopeSep)
       \/ ~contains(NewEntry(q), ScopeSep)
       \/ MethodName(OldEntry(q)) # MethodName(NewEntry(q))
    THEN InModified(PairAt(q)) /\ ~InReimp(PairAt(q))
    ELSE InReimp(PairAt(q)) /\ ~InModified(PairAt(q))

\* C3 as stated: the qualified-name rule decides every unequal position whose NEW
\* entry does not end with __cxa_pure_virtual.
C3_QualifiedNameRuleUnlessNewPure ==
    VTablesDiffed =>
        \A q \in ComparedPositions :
            (OldEntry(q) # NewEntry(q) /\ ~endsWith(NewEntry(q), PureVirtual))
                => QualifiedNameRule(q)

\* C3 as amended: the qualified-name rule decides every unequal position whose OLD
\* entry does not end with __cxa_pure_virtual.
C3_QualifiedNameRuleUnlessOldPure ==
    VTablesDiffed =>
        \A q \in ComparedPositions :
            (OldEntry(q) # NewEntry(q) /\ ~endsWith(OldEntry(q), PureVirtual))
                => QualifiedNameRule(q)

\* "0 A::m" against "0 B::m" is a Reimp, "0 A::m" against "0 A::n" a Mismatch, and an
\* entry without "::" against "0 A::m" a Mismatch.
C3_Witness ==
    /\ pc = "vtables"
    /\ \E q \in ComparedPositions :
          /\ OldEntry(q) = <<"0", " ", "A", ":", ":", "m">>
          /\ NewEntry(q) = <<"0", " ", "B", ":", ":", "m">>
          /\ InReimp(PairAt(q))
    /\ \E q \in ComparedPositions :
          /\ OldEntry(q) = <<"0", " ", "A", ":", ":", "m">>
          /\ NewEntry(q) = <<"0", " ", "A", ":", ":", "n">>
          /\ InModified(PairAt(q))

\* How many of the positions the entry comparison classifies as r.
ResultCount(positions, r) ==
    Cardinality({ q \in positions : entryResult(OldVT(q[1]), NewVT(q[1]), q[2]) = r })

\* modifiedVTables has the pair (class, "size mismatch") once for each of the classes,
\* and besides these pairs it and reimpMethods have one pair per position classified
\* Mismatch and Reimp.
SentinelOnly(classes, positions) ==
    /\ \A k \in classes : Count(vtDiff.modifiedVTables, <<k, SizeMismatchText>>) = 1
    /\ Len(vtDiff.modifiedVTables) = Cardinality(classes) + ResultCount(positions, "Mismatch")
    /\ Len(vtDiff.reimpMethods) = ResultCount(positions, "Reimp")

\* C4: a class in both snapshots whose vtable lengths differ puts exactly one pair
\* (class, "size mismatch") into modifiedVTables and nothing else: the other pairs of
\* modifiedVTables and those of reimpMethods are one per compared position.
C4_SizeMismatchSentinel ==
    VTablesDiffed => SentinelOnly(CommonClasses \ SameLengthClasses, ComparedPositions)

\* A class with one entry against two, whose first entries differ.
C4_Witness ==
    /\ pc = "vtables"
    /\ \E k \in CommonClasses :
          /\ Len(OldVT(k)) = 1
          /\ Len(NewVT(k)) = 2
          /\ OldVT(k)[1] # NewVT(k)[1]
          /\ vtDiff.modifiedVTables = << <<k, SizeMismatchText>> >>
          /\ vtDiff.reimpMethods = <<>>

\* C5: addedVTables holds exactly the classes of new.classVTables that are not in
\* old.classVTables, removedVTables exactly those of old.classVTables that are not in
\* new.classVTables, each class once, and the two lists share no class.
C5_AddedRemovedExact ==
    VTablesDiffed =>
        /\ Range(vtDiff.addedVTables) = NewVTKeys \ OldVTKeys
        /\ Len(vtDiff.addedVTables) = Cardinality(NewVTKeys \ OldVTKeys)
        /\ Range(vtDiff.removedVTables) = OldVTKeys \ NewVTKeys
        /\ Len(vtDiff.removedVTables) = Cardinality(OldVTKeys \ NewVTKeys)
        /\ Range(vtDiff.addedVTables) \cap Range(vtDiff.removedVTables) = {}

C5_Witness ==
    /\ pc = "vtables"
    /\ Len(vtDiff.addedVTables) = 1
    /\ Len(vtDiff.removedVTables) = 1

\* C6: the list addedVTables of diffVTables(A, B) is the list removedVTables of
\* diffVTables(B, A).
C6_AddedIsReverseRemoved ==
    VTablesDiffed =>
        vtDiff.addedVTables = diffVTables(newLib, oldLib).removedVTables

\* Two classes are added, so that the order of the list matters.
C6_Witness ==
    /\ pc = "vtables"
    /\ Len(vtDiff.addedVTables) = 2

\* C7: added holds exactly the classes of new.classSizes that are not in
\* old.classSizes, removed exactly those of old.classSizes that are not in
\* new.classSizes, mismatch exactly the classes of both whose sizes differ, each class
\* once; old {Foo: 16} and new {Foo: 24, Bar: 8} give mismatch [Foo], added [Bar] and
\* removed [].
C7_SizeDiffExact ==
    SizesDiffed =>
        LET differing == { k \in OldSizeKeys \cap NewSizeKeys :
                hashValue(oldLib.classSizes, k) # hashValue(newLib.classSizes, k) }
        IN  /\ Range(sizeDiff.added) = NewSizeKeys \ OldSizeKeys
            /\ Len(sizeDiff.added) = Cardinality(NewSizeKeys \ OldSizeKeys)
            /\ Range(sizeDiff.removed) = OldSizeKeys \ NewSizeKeys
            /\ Len(sizeDiff.removed) = Cardinality(OldSizeKeys \ NewSizeKeys)
            /\ Range(sizeDiff.mismatch) = differing
            /\ Len(sizeDiff.mismatch) = Cardinality(differing)
            /\ ( /\ oldLib.classSizes = << [key |-> Foo, value |-> 16] >>
                 /\ Range(newLib.classSizes) =
                        { [key |-> Foo, value |-> 24], [key |-> Bar, value |-> 8] } )
               => sizeDiff = [mismatch |-> <<Foo>>, added |-> <<Bar>>,
                              removed |-> <<>>]

C7_Witness ==
    /\ pc = "done"
    /\ oldLib.classSizes = << [key |-> Foo, value |-> 16] >>
    /\ newLib.classSizes = << [key |-> Bar, value |-> 8], [key |-> Foo, value |-> 24] >>
    /\ sizeDiff = [mismatch |-> <<Foo>>, added |-> <<Bar>>, removed |-> <<>>]

\* C8: every pair of reimpMethods, and every pair of modifiedVTables other than a
\* (class, "size mismatch") one, is (old entry, new entry) of one index of one class.
C8_PairsAreOldNew ==
    VTablesDiffed =>
        \A p \in Range(vtDiff.reimpMethods)
                 \cup { m \in Range(vtDiff.modifiedVTables) : m[2] # SizeMismatchText } :
            \E k \in CommonClasses :
                \E i \in 1..Len(OldVT(k)) :
                    i <= Len(NewVT(k)) /\ p = <<OldVT(k)[i], NewVT(k)[i]>>

\* The second entries of a class differ and its first entries are equal.
C8_Witness ==
    /\ pc = "vtables"
    /\ \E k \in SameLengthClasses :
          /\ Len(OldVT(k)) = 2
          /\ OldVT(k)[1] = NewVT(k)[1]
          /\ OldVT(k)[2] # NewVT(k)[2]
          /\ OldVT(k)[1] # OldVT(k)[2]
          /\ InModified(<<OldVT(k)[2], NewVT(k)[2]>>)

\* The snapshots with the contents of oldLib and of newLib: the same keys with the
\* same values, in any iteration order of the two hashes.
SameContents(lib) ==
    { [classSizes |-> cs, classVTables |-> cv] :
        cs \in orderings(lib.classSizes), cv \in orderings(lib.classVTables) }

\* Two lists are identical; two lists have the same elements, each as many times.
SameElements(a, b) ==
    /\ Len(a) = Len(b)
    /\ \A x \in Range(a) \cup Range(b) : Count(a, x) = Count(b, x)
SameVTableElements(d, e) ==
    /\ SameElements(d.reimpMethods, e.reimpMethods)
    /\ SameElements(d.modifiedVTables, e.modifiedVTables)
    /\ SameElements(d.addedVTables, e.addedVTables)
    /\ SameElements(d.removedVTables, e.removedVTables)
SameSizeElements(d, e) ==
    /\ SameElements(d.mismatch, e.mismatch)
    /\ SameElements(d.added, e.added)
    /\ SameElements(d.removed, e.removed)

\* C17 as stated: for snapshots with the contents of oldLib and newLib, however built,
\* diffVTables and diffSizes return lists identical, element for element, to those
\* returned for oldLib and newLib.
C17_IdenticalLists ==
    SizesDiffed =>
        \A o \in SameContents(oldLib), n \in SameContents(newLib) :
            /\ diffVTables(o, n) = vtDiff
            /\ diffSizes(o, n) = sizeDiff

\* C17: for snapshots with the contents of oldLib and newLib, each list diffVTables
\* and diffSizes return has the elements of the list returned for oldLib and newLib,
\* each as many times; the order of a list is that of the iteration of the hashes.
C17_SameElements ==
    SizesDiffed =>
        \A o \in SameContents(oldLib), n \in SameContents(newLib) :
            /\ SameVTableElements(diffVTables(o, n), vtDiff)
            /\ SameSizeElements(diffSizes(o, n), sizeDiff)

\* Two classes that oldLib does not have were diffed; in the other iteration order of
\* newLib.classVTables the list of the added classes is the other way round.
C17_Witness ==
    /\ SizesDiffed
    /\ oldLib.classVTables = <<>>
    /\ Len(newLib.classVTables) = 2
    /\ vtDiff.addedVTables = <<Foo, Bar>>
    /\ \E n \in SameContents(newLib) : diffVTables(oldLib, n).addedVTables = <<Bar, Foo>>

(***************************************************************************)
(* Properties of the parser                                                *)
(***************************************************************************)

\* parseOutput has returned; the classes of the snapshot it returned.
Parsed == pc = "parsed"
ParsedSizeKeys == Range(hashKeys(info.classSizes))
ParsedVTableKeys == Range(hashKeys(info.classVTables))
ParsedKeys == ParsedSizeKeys \cup ParsedVTableKeys

\* The class a block of a dump is about: the first line after "Class " or
\* "Vtable for ", the empty name for any other block.
BlockClass(block) ==
    IF startsWith(block, ClassPrefix) THEN mid(sectionFirst(block, <<"\n">>), 6)
    ELSE IF startsWith(block, VTablePrefixText) THEN mid(sectionFirst(block, <<"\n">>), 11)
    ELSE <<>>

\* The classes of the blocks of the dump parsed.
DumpClasses == { BlockClass(source[i]) : i \in 1..Len(source) }

QObject == <<"Q", "O", "b", "j", "e", "c", "t">>
Widget == <<"W", "i", "d", "g", "e", "t">>
Template == <<"<">>

\* C9: for every dump and every blacklist, the empty one included, no key of
\* classSizes or classVTables of the snapshot parseOutput returns contains "<".
C9_NoTemplateKeys ==
    Parsed => \A k \in ParsedKeys : ~contains(k, Template)

\* With an empty blacklist, a dump with a block of a template class and a block of
\* another class has been parsed, and the other class is in the snapshot.
C9_Witness ==
    /\ Parsed
    /\ blackList = <<>>
    /\ \E k \in DumpClasses : contains(k, Template)
    /\ ParsedKeys # {}

\* C10: for every dump and every blacklist, no key stored in classSizes or classVTables
\* of the snapshot returned is blacklisted; with the single wildcard "Q*", a dump with
\* blocks for QObject and Widget gives a snapshot whose only class is Widget.
C10_NoBlacklistedKeys ==
    /\ Parsed => \A k \in ParsedKeys : ~isBlacklisted(k)
    /\ ( /\ Parsed
         /\ blackList = << wildcardExpression(<<"Q", "*">>) >>
         /\ DumpClasses = {QObject, Widget} )
       => ParsedKeys = {Widget}

\* With the single wildcard "Q*", a dump of the class block of QObject and the vtable
\* block of Widget has been parsed.
C10_Witness ==
    /\ Parsed
    /\ blackList = << wildcardExpression(<<"Q", "*">>) >>
    /\ source = <<ClassQObjectBlock, VTableWidgetBlock>>
    /\ ParsedSizeKeys = {}
    /\ ParsedVTableKeys = {Widget}

\* The names isBlacklisted is asked about.
VecInt == <<"V", "e", "c", "<", "i", "n", "t", ">">>
NamePool == {Foo, QObject, Widget, VecInt, <<"W", "i", "d">>, <<"Q">>}

\* Some stored pattern matches the whole of name; some stored pattern that is not
\* anchored matches a part of name.
WholeMatch(name) ==
    \E i \in 1..Len(blackList) : matchTokens(blackList[i].tokens, name)
PartMatch(name) ==
    \E i \in 1..Len(blackList) :
        /\ ~blackList[i].anchored
        /\ \E a \in 1..(Len(name) + 1) : \E b \in (a - 1)..Len(name) :
              matchTokens(blackList[i].tokens, SubSeq(name, a, b))

\* C11 as stated: isBlacklisted(name) is true if and only if name contains "<" or a
\* stored pattern matches the whole of name, whichever overload stored the pattern.
C11_WholeMatchOnly ==
    \A name \in NamePool :
        isBlacklisted(name) <=> (contains(name, Template) \/ WholeMatch(name))

\* C11: isBlacklisted(name) is true if and only if name contains "<", or a stored
\* pattern matches the whole of name, or a stored pattern that is not anchored (one
\* given as a regular expression) matches a part of name; a pattern stored from a
\* wildcard is anchored.
C11_MatchAsStored ==
    /\ \A name \in NamePool :
          isBlacklisted(name) <=>
              (contains(name, Template) \/ WholeMatch(name) \/ PartMatch(name))
    /\ \A i \in 1..Len(blackList) :
          (\E w \in WildcardPool : blackList[i].tokens = wildcardExpression(w).tokens)
              => blackList[i].anchored

\* The regular expression Wid is the only pattern stored; a dump with a block of
\* Widget has been parsed and Widget, which the pattern matches in part only, is not
\* in the snapshot.
C11_Witness ==
    /\ Parsed
    /\ blackList = << CHOOSE e \in ExpressionPool : TRUE >>
    /\ Widget \in DumpClasses
    /\ ~WholeMatch(Widget)
    /\ isBlacklisted(Widget)
    /\ Widget \notin ParsedKeys

\* C13: the dump of the block "Class Foo", "  size=16 align=8", a blank line and the
\* block "Vtable for Foo", "Foo::_ZTV3Foo: 3u entries", "0 (int (*)(...))0",
\* "1 Foo::~Foo", "2 Foo::bar", parsed with an empty blacklist, gives classSizes[Foo]
\* = 16 and classVTables[Foo] = ["0 0", "1 0", "2 Foo::bar"].
C13_ExampleDump ==
    (Parsed /\ blackList = <<>> /\ ba = ClassFooBlock \o BlockSep \o VTableFooBlock)
        => /\ info.classSizes = << [key |-> Foo, value |-> 16] >>
           /\ info.classVTables =
                << [key |-> Foo,
                    value |-> << <<"0", " ", "0">>, <<"1", " ", "0">>,
                                 <<"2", " ", "F", "o", "o", ":", ":", "b", "a", "r">> >>] >>

\* That dump has been parsed with an empty blacklist, and both maps have Foo.
C13_Witness ==
    /\ Parsed
    /\ blackList = <<>>
    /\ ba = ClassFooBlock \o BlockSep \o VTableFooBlock
    /\ blk = 3
    /\ ParsedSizeKeys = {Foo}
    /\ ParsedVTableKeys = {Foo}

\* C14: parseFile of a file that does not exist or cannot be opened for reading
\* returns a snapshot whose classSizes and classVTables are both empty; the call
\* returns as any other.
C14_UnopenedFileEmpty ==
    pc = "unopened" => (info.classSizes = <<>> /\ info.classVTables = <<>>)

\* parseFile of a file that cannot be opened has returned on a QBic whose last parse
\* had stored the size and the vtable of Foo.
C14_Witness ==
    /\ pc = "unopened"
    /\ blackList = <<>>
    /\ ba = ClassFooBlock \o BlockSep \o VTableFooBlock
    /\ blk = 3
    /\ info = EmptyInfo

\* Block i of the dump is a block of the kind "Class " (of the kind "Vtable for ")
\* that is not blacklisted and can be parsed: it has two lines or more and, for a
\* size, its second line has size= and a number.
BlockLinesOf(i) == split(source[i], <<"\n">>)
StoresSize(i) ==
    /\ startsWith(source[i], ClassPrefix)
    /\ Len(BlockLinesOf(i)) >= 2
    /\ ~isBlacklisted(BlockClass(source[i]))
    /\ sizeMatch(BlockLinesOf(i)[2]).hasMatch
StoresVTable(i) ==
    /\ startsWith(source[i], VTablePrefixText)
    /\ Len(BlockLinesOf(i)) >= 2
    /\ ~isBlacklisted(BlockClass(source[i]))

\* Block i is the last block of the dump that stores a size (a vtable) for its label.
LastSizeBlock(i) ==
    /\ StoresSize(i)
    /\ \A j \in (i + 1)..Len(source) :
          ~(StoresSize(j) /\ BlockClass(source[j]) = BlockClass(source[i]))
LastVTableBlock(i) ==
    /\ StoresVTable(i)
    /\ \A j \in (i + 1)..Len(source) :
          ~(StoresVTable(j) /\ BlockClass(source[j]) = BlockClass(source[i]))

\* The keys of a hash are pairwise distinct.
UniqueKeys(h) == \A i, j \in 1..Len(h) : h[i].key = h[j].key => i = j

\* C16: when a dump has several blocks of one kind with one label that are not
\* blacklisted and can be parsed, the snapshot has a single entry for the label, and its
\* value is the size (the vtable) of the last of these blocks in the dump.
C16_LastBlockWins ==
    Parsed =>
        /\ UniqueKeys(info.classSizes)
        /\ UniqueKeys(info.classVTables)
        /\ \A i \in 1..Len(source) :
              /\ LastSizeBlock(i) =>
                    /\ hashContains(info.classSizes, BlockClass(source[i]))
                    /\ hashValue(info.classSizes, BlockClass(source[i]))
                         = toInt(sizeMatch(BlockLinesOf(i)[2]).captured).value
              /\ LastVTableBlock(i) =>
                    /\ hashContains(info.classVTables, BlockClass(source[i]))
                    /\ hashValue(info.classVTables, BlockClass(source[i]))
                         = normalizedVTable(BlockLinesOf(i))

\* With an empty blacklist, the dump of the block of Foo of size 16, then the block
\* of Foo of size 24, has been parsed: Foo has the size 24.
C16_Witness ==
    /\ Parsed
    /\ blackList = <<>>
    /\ source = <<ClassFooBlock, ClassFooBigBlock>>
    /\ info.classSizes = << [key |-> Foo, value |-> 24] >>

\* Block i is a block of the kind "Class " that can be parsed; a block of the kind
\* "Vtable for " of two lines or more.
SizeBlock(i) ==
    /\ startsWith(source[i], ClassPrefix)
    /\ Len(BlockLinesOf(i)) >= 2
    /\ sizeMatch(BlockLinesOf(i)[2]).hasMatch
VTableBlock(i) ==
    /\ startsWith(source[i], VTablePrefixText)
    /\ Len(BlockLinesOf(i)) >= 2

\* The result of parseClassName for a label.
ResolvedName(label) == parseClassName(label).className

WidgetImpl == <<"W", "i", "d", "g", "e", "t", ":", ":", "I", "m", "p", "l">>

\* C18 as stated: for "Class " and for "Vtable for " blocks, the name tested against
\* the blacklist before storing is the result of parseClassName for the label: the
\* label of a block is stored exactly when that result is not blacklisted.
C18_ResolvedNameTested ==
    Parsed =>
        \A i \in 1..Len(source) :
            /\ SizeBlock(i) =>
                  (BlockClass(source[i]) \in ParsedSizeKeys
                      <=> ~isBlacklisted(ResolvedName(BlockClass(source[i]))))
            /\ VTableBlock(i) =>
                  (BlockClass(source[i]) \in ParsedVTableKeys
                      <=> ~isBlacklisted(ResolvedName(BlockClass(source[i]))))

\* C18: for "Class " and for "Vtable for " blocks, the name tested against the
\* blacklist before storing is the label itself, the text of the first line after
\* "Class " or "Vtable for ": the label of a block is stored exactly when the label is
\* not blacklisted.
C18_LabelTested ==
    Parsed =>
        \A i \in 1..Len(source) :
            /\ SizeBlock(i) =>
                  (BlockClass(source[i]) \in ParsedSizeKeys
                      <=> ~isBlacklisted(BlockClass(source[i])))
            /\ VTableBlock(i) =>
                  (BlockClass(source[i]) \in ParsedVTableKeys
                      <=> ~isBlacklisted(BlockClass(source[i])))

\* With the single wildcard Widget, the Class block and the Vtable block of
\* Widget::Impl have been parsed: parseClassName gives Widget for the label, which is
\* blacklisted, and the label is stored in both maps.
C18_Witness ==
    /\ Parsed
    /\ blackList = << wildcardExpression(Widget) >>
    /\ source = <<ClassWidgetImplBlock, VTableWidgetImplBlock>>
    /\ ResolvedName(WidgetImpl) = Widget
    /\ isBlacklisted(Widget)
    /\ ParsedSizeKeys = {WidgetImpl}
    /\ ParsedVTableKeys = {WidgetImpl}

(***************************************************************************)
(* Properties of the normalizer                                            *)
(***************************************************************************)

\* normalizedVTable has returned; the entry lines of the block; the index and the
\* symbol of an entry line that is an index, one space and a symbol.
Normalized == pc = "normalized"
EntryLines == 3..Len(blockLines)
IndexText(line) == left(line, indexOf(line, <<" ">>))
SymbolText(line) == mid(line, indexOf(line, <<" ">>) + 1)
Emitted(e) == \E j \in 1..Len(vtableOut) : vtableOut[j] = e

\* The block is the vtable of class Foo.
OfFoo == blockLines[2] \in {HeaderFoo, HeaderPlain}

\* Foo::~Foo and the six non-virtual thunks to it.
FooDestructorSymbols == { SymbolText(l) : l \in {LineDestructor} \cup ThunkLines }

\* C12: in the vtable of class Foo, an entry whose symbol is Foo::~Foo or one of the
\* six symbols Foo::_ZThn<off>_N3Foo<suffix>, off in {16, 32, 40} and suffix in
\* {D0Ev, D1Ev}, is emitted as "<index> 0".
C12_DestructorZeroed ==
    (Normalized /\ OfFoo) =>
        \A i \in EntryLines :
            SymbolText(blockLines[i]) \in FooDestructorSymbols
                => Emitted(IndexText(blockLines[i]) \o <<" ", "0">>)

\* The block of Foo with the thunk at offset 40 of the complete destructor, then the
\* destructor, has been normalized.
C12_Witness ==
    /\ Normalized
    /\ blockLines = <<LabelLineFoo, HeaderFoo, LineThunk40D1, LineDestructor>>
    /\ vtableOut = << <<"4", " ", "0">>, <<"1", " ", "0">> >>

\* The class name normalizedVTable reads from the second line of the block, the
\* entry lines that normalize, and the normalized entry of such a line.
BlockClassName == chop(sectionFirst(blockLines[2], <<" ">>), 1)
LineResults == [i \in EntryLines |-> normalizedLine(BlockClassName, blockLines[i])]
NormalizingLines == { i \in EntryLines : LineResults[i].ok }
NormalizedEntry(i) == LineResults[i].entry

\* The vtable returned has one entry for each of the given lines, and the entry of a
\* line, taken from the given results, is at the position that counts the given lines
\* up to it.
InOrderOf(results, lines) ==
    /\ Len(vtableOut) = Cardinality(lines)
    /\ \A i \in lines :
          vtableOut[Cardinality({ j \in lines : j <= i })] = results[i].entry

\* C15: the vtable returned is the sequence of the normalized entries of exactly the
\* entry lines (third line onward) that normalize, in their order in the block: as
\* many entries as such lines, and the entry of a line at the position that counts the
\* normalizing lines up to it.
OrderPreservedFor(results) ==
    InOrderOf(results, { i \in DOMAIN results : results[i].ok })

C15_OrderPreserved == Normalized => OrderPreservedFor(LineResults)

\* Two lines that normalize to different entries have been normalized, the line of
\* the higher index first.
C15_Witness ==
    /\ Normalized
    /\ blockLines = <<LabelLineFoo, HeaderFoo, LineMethod, LineDestructor>>
    /\ vtableOut = << <<"2", " ", "F", "o", "o", ":", ":", "b", "a", "r">>,
                      <<"1", " ", "0">> >>

\* The fields of the label that "::" separates, the first and the second of them (the
\* second is empty when there is one field only), and the label of the vtable of the
\* class Inner nested in Outer: Outer::Inner::_ZTVN<len(Outer)>Outer<len(Inner)>InnerE.
LabelFields == split(BlockClassName, ScopeSep)
Outer == LabelFields[1]
Inner == IF Len(LabelFields) >= 2 THEN LabelFields[2] ELSE <<>>
InnerLabelOf(outer, inner) ==
    outer \o ScopeSep \o inner \o ScopeSep \o <<"_", "Z", "T", "V", "N">>
        \o number(Len(outer)) \o outer \o number(Len(inner)) \o inner \o <<"E">>
InnerLabel == InnerLabelOf(Outer, Inner)

\* The names resolved for the label are (inner, outer::inner) when the label is that
\* of the vtable of inner nested in outer, and (outer, outer) when it is not.
ResolvesAs(label, outer, inner) ==
    parseClassName(label) =
        IF label = InnerLabelOf(outer, inner)
        THEN [className |-> inner, qualifiedClassName |-> outer \o ScopeSep \o inner]
        ELSE [className |-> outer, qualifiedClassName |-> outer]

\* C19: the names resolved for a label are (simple = Inner, qualified = Outer::Inner)
\* exactly when the whole label is Outer::Inner::_ZTVN<len(Outer)>Outer<len(Inner)>InnerE;
\* for every other label both names are Outer.
C19_ClassNameResolution == Normalized => ResolvesAs(BlockClassName, Outer, Inner)

\* The block of the class Inner nested in Outer has been normalized: its destructor
\* Outer::Inner::~Inner, built from the two resolved names, became 0.
C19_Witness ==
    /\ Normalized
    /\ blockLines = <<LabelLineFoo, HeaderInner, LineInnerDestructor>>
    /\ BlockClassName = InnerLabel
    /\ parseClassName(BlockClassName).className = <<"I", "n", "n", "e", "r">>
    /\ vtableOut = << <<"7", " ", "0">> >>

\* The symbol is the destructor of Foo or one of its thunks, or ends with one of them
\* after a further qualification that ends with "::".
QualifiedDestructor(sym) ==
    \E d \in FooDestructorSymbols : sym = d \/ endsWith(sym, ScopeSep \o d)

\* C20: in the vtable of a class whose destructor is D = Qualified::~Simple, a symbol
\* is replaced by 0 when it is D and also when it ends with D after a further
\* qualification that ends with "::" (NS::Foo::~Foo for D = Foo::~Foo); the same for
\* each of the non-virtual thunks.
C20_TailMatchZeroed ==
    (Normalized /\ OfFoo) =>
        \A i \in EntryLines :
            QualifiedDestructor(SymbolText(blockLines[i]))
                => Emitted(IndexText(blockLines[i]) \o <<" ", "0">>)

(***************************************************************************)
(* Properties of the parser on dumps with unreadable blocks                *)
(***************************************************************************)

\* The symbol of an entry line as normalizedVTable tests it for a number, and the
\* lines it cannot read: the index is not an integer, or the symbol starts with 0 or
\* -0 and, without one trailing u, is not a hexadecimal qint64.
LineIndex(line) == toInt(IndexText(simplified(line)))
LineSymbol(line) == withoutReferenceSpace(symbolOf(simplified(line)))
LooksNumeric(sym) == startsWith(sym, <<"0">>) \/ startsWith(sym, <<"-", "0">>)
WithoutUnit(sym) == IF endsWith(sym, <<"u">>) THEN chop(sym, 1) ELSE sym
Unreadable(line) ==
    \/ ~LineIndex(line).ok
    \/ LooksNumeric(LineSymbol(line)) /\ ~toLongLong(WithoutUnit(LineSymbol(line))).ok

\* The entry lines of the given lines that can be read.
ReadableLines(lines) == { k \in 3..Len(lines) : ~Unreadable(lines[k]) }

\* The stored vtable has one entry for each of the kept lines, in their order, and
\* the entry of a line starts with the index of the line and a space.
KeepsExactly(stored, lines, kept) ==
    /\ Len(stored) = Cardinality(kept)
    /\ \A k \in kept :
          startsWith(stored[Cardinality({ j \in kept : j <= k })],
                     number(LineIndex(lines[k]).value) \o <<" ">>)

\* Every block of the dump that stores a size or a vtable has its class in the
\* snapshot.
AllBlocksParsed ==
    \A i \in 1..Len(source) :
        /\ StoresSize(i) => BlockClass(source[i]) \in ParsedSizeKeys
        /\ StoresVTable(i) => BlockClass(source[i]) \in ParsedVTableKeys

\* C21: an entry line of a vtable block whose index is not an integer, or whose
\* symbol starts with 0 or -0 and is not a hexadecimal signed 64-bit value, is dropped
\* and nothing else is: the vtable stored for the block has exactly the other entry
\* lines, in order, so its length is the number of lines normalized, and the blocks
\* after it are parsed.
C21_UnreadableLinesDropped ==
    Parsed =>
        /\ AllBlocksParsed
        /\ \A i \in 1..Len(source) :
              LastVTableBlock(i) =>
                  /\ hashContains(info.classVTables, BlockClass(source[i]))
                  /\ KeepsExactly(hashValue(info.classVTables, BlockClass(source[i])),
                                  BlockLinesOf(i), ReadableLines(BlockLinesOf(i)))

\* The block of Foo with a line without an index, a line that can be read and a line
\* with a number that is not hexadecimal, then the size of Foo, has been parsed: the
\* vtable has the one line, and the size is stored.
C21_Witness ==
    /\ Parsed
    /\ source = <<VTableFooBadLinesBlock, ClassFooBlock>>
    /\ info.classVTables
         = << [key |-> Foo, value |-> << <<"1", " ", "F", "o", "o", ":", ":", "b">> >>] >>
    /\ info.classSizes = << [key |-> Foo, value |-> 16] >>

\* The digits after the first size= of a line that a digit follows, from position i
\* on (0-based); the empty text when there is none.
RECURSIVE sizeDigitsFrom(_, _)
sizeDigitsFrom(line, i) ==
    IF i + Len(SizeKey) >= Len(line) THEN <<>>
    ELSE IF SubSeq(line, i + 1, i + Len(SizeKey)) = SizeKey
            /\ isDigit(line[i + Len(SizeKey) + 1])
         THEN leadingDigits(mid(line, i + Len(SizeKey)))
    ELSE sizeDigitsFrom(line, i + 1)
SizeDigits(line) == sizeDigitsFrom(line, 0)

\* The decimal numeral of the value of a run of digits.
Numeral(digits) ==
    IF stripZeros(digits, "0") = <<>> THEN <<"0">> ELSE stripZeros(digits, "0")

\* The block the foreach of parseOutput is at is a "Class " block that is not
\* blacklisted and has a second line.
AtClassBlock ==
    /\ pc = "parse"
    /\ blk <= Len(source)
    /\ startsWith(source[blk], ClassPrefix)
    /\ Len(BlockLinesOf(blk)) >= 2
    /\ ~isBlacklisted(BlockClass(source[blk]))

\* The snapshot after the block has, for the label, the size the digits denote and
\* leaves the vtables alone; without digits it is the snapshot before the block.
SizeStored(before, after, label, digits) ==
    IF digits = <<>> THEN after = before
    ELSE /\ hashContains(after.classSizes, label)
         /\ number(hashValue(after.classSizes, label)) = Numeral(digits)
         /\ hashValue(after.classSizes, label) >= 0
         /\ after.classVTables = before.classVTables

\* C22: a "Class <label>" block whose second line has no size=<digits> leaves the
\* snapshot as it was, a size stored earlier for the label included, and the next
\* blocks are parsed; when the second line has one, classSizes[label] is after the
\* block the non-negative integer that the digits of the first match denote.
C22_SizeLineDecides ==
    [][AtClassBlock =>
          /\ SizeStored(info, info', BlockClass(source[blk]),
                        SizeDigits(BlockLinesOf(blk)[2]))
          /\ blk' = blk + 1 /\ pc' = "parse"]_vars

\* The foreach of parseOutput is at a block; the 0-based offset in the dump of block
\* i, given that the blocks lie in the dump one separator apart.
AtBlock == pc = "parse" /\ blk <= Len(source)
RECURSIVE BlockOffset(_)
BlockOffset(i) ==
    IF i = 1 THEN 0 ELSE BlockOffset(i - 1) + Len(source[i - 1]) + Len(BlockSep)

\* The number of newline characters in the dump right in front of the offset p.
RECURSIVE NewlinesBefore(_)
NewlinesBefore(p) ==
    IF p >= 1 /\ ba[p] = "\n" THEN 1 + NewlinesBefore(p - 1) ELSE 0

\* The offsets within block i at which a line that starts a record begins.
RecordsIn(i) ==
    { p \in BlockOffset(i)..(BlockOffset(i) + Len(source[i]) - 1) :
        /\ p = 0 \/ ba[p] = "\n"
        /\ \/ startsWith(mid(ba, p), ClassPrefix)
           \/ startsWith(mid(ba, p), VTablePrefixText) }

\* A block that parseOutput ignores: it has a single line, or its first line starts
\* with neither "Class " nor "Vtable for " (an empty first line among them).
FirstLineEmpty(block) == block # <<>> /\ Head(block) = "\n"
Ignored(block) ==
    \/ ~contains(block, <<"\n">>)
    \/ /\ ~startsWith(block, ClassPrefix)
       /\ ~startsWith(block, VTablePrefixText)

\* Block i is the text of the dump at its offset, has no separator inside and, when
\* it is not the first, has a separator right in front of it.
CutAtSeparators(i) ==
    /\ SubSeq(ba, BlockOffset(i) + 1, BlockOffset(i) + Len(source[i])) = source[i]
    /\ ~contains(source[i], BlockSep)
    /\ i > 1 => SubSeq(ba, BlockOffset(i) - 1, BlockOffset(i)) = BlockSep
    /\ i = Len(source) => BlockOffset(i) + Len(source[i]) = Len(ba)

\* C27 as stated: blocks are cut at pairs of newlines only; a record with three or
\* more newlines in front of it is in a block whose first line is empty; a block with
\* an empty first line, a single line or another prefix leaves the snapshot unchanged.
C27_RecordAfterBlankLinesIgnored ==
    [][AtBlock =>
          /\ CutAtSeparators(blk)
          /\ \A p \in RecordsIn(blk) :
                NewlinesBefore(p) >= 3 => FirstLineEmpty(source[blk])
          /\ Ignored(source[blk]) => info' = info]_vars

\* C27: blocks are cut at pairs of newlines only, taken from left to right; a record
\* with an odd number of newlines, three or more, in front of it is in a block whose
\* first line is empty, and a record with an even number of them, two or more, begins
\* a block; a block with an empty first line, a single line or another prefix leaves
\* the snapshot unchanged.
C27_OddBlankLinesIgnored ==
    [][AtBlock =>
          /\ CutAtSeparators(blk)
          /\ \A p \in RecordsIn(blk) :
                /\ (NewlinesBefore(p) >= 3 /\ NewlinesBefore(p) % 2 = 1)
                      => FirstLineEmpty(source[blk]) /\ Ignored(source[blk])
                /\ (NewlinesBefore(p) >= 2 /\ NewlinesBefore(p) % 2 = 0)
                      => p = BlockOffset(blk)
          /\ Ignored(source[blk]) => info' = info]_vars

\* The size of Foo, then three newlines and the size of Widget, has been parsed: the
\* second block begins with an empty line and the snapshot has Foo only.
C27_Witness ==
    /\ Parsed
    /\ source = <<ClassFooBlock, BlankThenClassWidgetBlock>>
    /\ info = [classSizes |-> << [key |-> Foo, value |-> 16] >>, classVTables |-> <<>>]

\* The block the foreach of parseOutput is at is a "Vtable for " block that is not
\* blacklisted and has a second line.
AtVTableBlock ==
    /\ AtBlock
    /\ startsWith(source[blk], VTablePrefixText)
    /\ Len(BlockLinesOf(blk)) >= 2
    /\ ~isBlacklisted(BlockClass(source[blk]))

\* The snapshot has a vtable for the label, the empty one when no entry line of the
\* block can be read, and diffVTables takes the class as present: removed against a
\* snapshot without it, added after one.
VTableStored(after, label, readable) ==
    /\ hashContains(after.classVTables, label)
    /\ Len(hashValue(after.classVTables, label)) = Cardinality(readable)
    /\ label \in Range(diffVTables(after, EmptyInfo).removedVTables)
    /\ label \in Range(diffVTables(EmptyInfo, after).addedVTables)

\* C28: a "Vtable for X" block that is not blacklisted and has two lines or more is
\* always stored: without entry lines, or with entry lines that are all dropped,
\* classVTables[X] is after the block the empty sequence, whatever was stored for X
\* before, and diffVTables counts X as present.
C28_VTableBlockAlwaysStored ==
    [][AtVTableBlock =>
          VTableStored(info', BlockClass(source[blk]),
                       ReadableLines(BlockLinesOf(blk)))]_vars

\* The block of Foo with one entry, then the block of Foo whose only entry line has no
\* index, has been parsed: Foo has the empty vtable.
C28_Witness ==
    /\ Parsed
    /\ source = <<VTableFooShortBlock, VTableFooAllBadBlock>>
    /\ info.classVTables = << [key |-> Foo, value |-> <<>>] >>

(***************************************************************************)
(* Properties of the blacklist operations                                  *)
(***************************************************************************)

\* The list without the elements equal to the pattern, the others in their order.
Without(list, pattern) == SelectSeq(list, LAMBDA e : e # pattern)

\* A step of removeBlacklistedClass that changes the blacklist: it is the only
\* blacklist operation after which the list is shorter.
RemovalStep == pc = "config" /\ Len(blackList') < Len(blackList)

\* Removing a wildcard whose pattern is not stored gives the list back, and a name
\* with "<" is blacklisted whatever the list holds.
AbsentRemovalKeeps ==
    /\ \A w \in WildcardPool :
          wildcardExpression(w) \notin Range(blackList)
              => removeAll(blackList, wildcardExpression(w)) = blackList
    /\ \A name \in NamePool : contains(name, Template) => isBlacklisted(name)

\* C26: removeBlacklistedClass(w) removes every stored occurrence of the pattern
\* compiled from w and leaves the other patterns in their order; a name with "<" is
\* blacklisted before and after it; removing a wildcard that was never added changes
\* nothing.
C26_RemoveEveryOccurrence ==
    /\ [](pc = "config" => AbsentRemovalKeeps)
    /\ [][RemovalStep =>
             \E w \in WildcardPool :
                 /\ wildcardExpression(w) \in Range(blackList)
                 /\ wildcardExpression(w) \notin Range(blackList')
                 /\ blackList' = Without(blackList, wildcardExpression(w))]_vars

\* The blacklist holds Q* twice around the expression Wid, and removing Q* leaves
\* the expression only.
C26_Witness ==
    /\ pc = "config"
    /\ blackList = << wildcardExpression(<<"Q", "*">>),
                      CHOOSE e \in ExpressionPool : TRUE,
                      wildcardExpression(<<"Q", "*">>) >>
    /\ removeAll(blackList, wildcardExpression(<<"Q", "*">>)) \in [1..1 -> ExpressionPool]

(***************************************************************************)
(* Properties of the normalizer on casts, signatures and numbers           *)
(***************************************************************************)

\* The hexadecimal digits of a numeric symbol: without one trailing u, the sign and
\* the 0x; whether the symbol is negative; the value of at most seven digits.
Unsigned(sym) == IF Head(WithoutUnit(sym)) = "-" THEN Tail(WithoutUnit(sym))
                 ELSE WithoutUnit(sym)
HexDigitsOf(sym) ==
    stripZeros(IF startsWith(Unsigned(sym), <<"0", "x">>) THEN mid(Unsigned(sym), 2)
               ELSE Unsigned(sym), "0")
RECURSIVE SmallValue(_, _)
SmallValue(digits, acc) ==
    IF digits = <<>> THEN acc ELSE SmallValue(Tail(digits), acc * 16 + hexValue(Head(digits)))

\* The decimal text of the symbols of more than seven digits, on a pointer of width
\* bytes: the value itself on 8, the value modulo 2^32 read as signed on 4.
WideDecimal(sym, width) ==
    CASE
         sym = <<"0", "x", "f", "f", "f", "f", "f", "f", "f", "f">>
           -> IF width = 4 THEN <<"-", "1">>
              ELSE <<"4", "2", "9", "4", "9", "6", "7", "2", "9", "5">>
      [] sym = <<"0", "x", "8", "0", "0", "0", "0", "0", "0", "0">>
           -> IF width = 4 THEN <<"-", "2", "1", "4", "7", "4", "8", "3", "6", "4", "8">>
              ELSE <<"2", "1", "4", "7", "4", "8", "3", "6", "4", "8">>
      [] sym = <<"0", "x", "1", "0", "0", "0", "0", "0", "0", "0", "1">>
           -> IF width = 4 THEN <<"1">>
              ELSE <<"4", "2", "9", "4", "9", "6", "7", "2", "9", "7">>
      [] sym = <<"-", "0", "x", "8", "0", "0", "0", "0", "0", "0", "1">>
           -> IF width = 4 THEN <<"2", "1", "4", "7", "4", "8", "3", "6", "4", "7">>
              ELSE <<"-", "2", "1", "4", "7", "4", "8", "3", "6", "4", "9">>

\* The decimal text a numeric symbol is emitted as.
ExpectedDecimal(sym, width) ==
    IF Len(HexDigitsOf(sym)) <= 7
    THEN number((IF Head(sym) = "-" THEN -1 ELSE 1) * SmallValue(HexDigitsOf(sym), 0))
    ELSE WideDecimal(sym, width)

PositionsOf(text, c) == { i \in 1..Len(text) : text[i] = c }
Greatest(S) == IF S = {} THEN 0 ELSE CHOOSE i \in S : \A j \in S : j <= i
Least(S) == IF S = {} THEN 0 ELSE CHOOSE i \in S : \A j \in S : i <= j

\* The symbol of the text after the index: for a text that starts with "(" and ends
\* with ")", what is between its last "(" and its final ")"; for a text that starts
\* with "(" and does not end with ")", what is after its last ")"; for any other
\* text, what is before its first "(", the whole text when it has none.
ExpectedSymbol(text) ==
    IF text # <<>> /\ Head(text) = "("
    THEN IF text[Len(text)] = ")"
         THEN SubSeq(text, Greatest(PositionsOf(text, "(")) + 1, Len(text) - 1)
         ELSE SubSeq(text, Greatest(PositionsOf(text, ")")) + 1, Len(text))
    ELSE IF PositionsOf(text, "(") = {} THEN text
         ELSE SubSeq(text, 1, Least(PositionsOf(text, "(")) - 1)

\* The entry of the index and the symbol is emitted: the symbol itself when it is no
\* number, its decimal text when it is one.
EmittedFor(num, sym) ==
    Emitted(number(num) \o <<" ">>
            \o (IF LooksNumeric(sym) THEN ExpectedDecimal(sym, pointerSize) ELSE sym))

\* C24: the symbol normalizedVTable takes from the text after the index is, for a
\* text that starts with "(" and ends with ")", the text between the last "(" and the
\* final ")"; for a text that starts with "(" and does not end with ")", the text
\* after the last ")"; for a text that does not start with "(", the text before the
\* first "(", the whole text when there is none.  The entry emitted for a line that
\* can be read has this symbol (without the space after a leading &, and in decimal
\* when it is a number; no line here is a destructor).
C24_SymbolExtraction ==
    Normalized =>
        \A i \in EntryLines :
            ~Unreadable(blockLines[i])
                => EmittedFor(LineIndex(blockLines[i]).value,
                              withoutReferenceSpace(
                                  ExpectedSymbol(SymbolText(simplified(blockLines[i])))))

\* The line with a cast around & _ZTI3Foo in parentheses, then the line of a method
\* with its signature, have been normalized.
C24_Witness ==
    /\ Normalized
    /\ blockLines = <<LabelLineFoo, HeaderFoo, TokenCastTypeInfo, TokenSignature>>
    /\ vtableOut = << <<"1", "0", " ", "&", "_", "Z", "T", "I", "3", "F", "o", "o">>,
                      <<"1", "2", " ", "F", "o", "o", ":", ":", "b", "a", "z">> >>

(***************************************************************************)
(* Properties of the test harness                                          *)
(***************************************************************************)

\* sizesAndVTables has ended for a row; the row was skipped.
RowEnded == pc = "rows" /\ row # NoRow
Skipped == verdict = "skip"
Failed == verdict = "fail"

\* The conditions on the two diffs of the row: a removed vtable; modified vtables
\* that are not exactly one pair with first component QGraphicsProxyWidget in the row
\* of tag 4.4; a size mismatch; a removed size; and, in a patch release, an added
\* vtable, a reimplemented method or an added size.
ModifiedLetThrough ==
    /\ Len(vtDiff.modifiedVTables) = 1
    /\ row.tag = ExemptedTag
    /\ vtDiff.modifiedVTables[1][1] = QGraphicsProxyWidget
ListedFailure ==
    \/ vtDiff.removedVTables # <<>>
    \/ vtDiff.modifiedVTables # <<>> /\ ~ModifiedLetThrough
    \/ sizeDiff.mismatch # <<>>
    \/ sizeDiff.removed # <<>>
    \/ /\ row.isPatchRelease
       /\ \/ vtDiff.addedVTables # <<>>
          \/ vtDiff.reimpMethods # <<>>
          \/ sizeDiff.added # <<>>

\* One of the two snapshots of the row has no vtable.
NoVTables == oldLib.classVTables = <<>> \/ newLib.classVTables = <<>>

\* C25 as stated: sizesAndVTables reports failure for a row if and only if one of the
\* listed conditions on the diffs holds.
C25_FailureIffListed ==
    RowEnded => (Failed <=> ListedFailure)

\* C25: for a row that is not skipped, sizesAndVTables reports failure if and only if
\* one of the two snapshots has no vtable or one of the listed conditions on the diffs
\* holds; a skipped row reports none.  In a row that is no patch release, added
\* vtables, reimplemented methods and added sizes alone do not fail it.
C25_FailureIffListedOrNoVTables ==
    RowEnded =>
        /\ Skipped => ~ListedFailure
        /\ ~Skipped => (Failed <=> (NoVTables \/ ListedFailure))
        /\ (~Skipped /\ ~Failed) => verdict = "pass"

\* The row QtCore:5.0 has ended in failure although no diff was made: the reference
\* has vtables and the compiler run gave none.
C25_Witness ==
    /\ RowEnded
    /\ row.tag = <<"Q", "t", "C", "o", "r", "e", ":", "5", ".", "0">>
    /\ Failed
    /\ oldLib = InfoBase
    /\ newLib = EmptyInfo
    /\ vtDiff = EmptyVTableDiff
    /\ sizeDiff = EmptySizeDiff

(***************************************************************************)
(* The data tags and the exemption of QGraphicsProxyWidget                 *)
(***************************************************************************)

\* The rows sizesAndVTables_data has made: those still to run and the one running or
\* run last.
GeneratedRows ==
    { rows[i] : i \in 1..Len(rows) } \cup (IF row = NoRow THEN {} ELSE {row})

\* s is a decimal numeral: one digit or more, nothing else.
IsNumeral(s) ==
    /\ s # <<>>
    /\ \A i \in 1..Len(s) : \E d \in 1..Len(DecDigits) : s[i] = DecDigits[d]

\* The tag of r is <module>:5.<n>, the module being the library of the row.
TagOfModule(r) ==
    LET m == Len(r.libName) IN
    /\ \E k \in 1..Len(ModuleKeys) : r.libName = ModuleKeys[k]
    /\ Len(r.tag) > m + 3
    /\ SubSeq(r.tag, 1, m) = r.libName
    /\ SubSeq(r.tag, m + 1, m + 3) = <<":", "5", ".">>
    /\ IsNumeral(SubSeq(r.tag, m + 4, Len(r.tag)))

\* C29: every row sizesAndVTables_data generates has a tag <module>:5.<n>, which is
\* not 4.4; so no row lets modified vtables through, and a row that has ended with
\* modified vtables in its diff has failed.
C29_GeneratedTagsNeverExempt ==
    /\ \A r \in GeneratedRows : TagOfModule(r) /\ r.tag # ExemptedTag
    /\ row # NoRow => ~modifiedExempted(vtDiff, row.tag)
    /\ (RowEnded /\ vtDiff.modifiedVTables # <<>>) => Failed

\* The row QtGui:5.1 has failed on the single pair (QGraphicsProxyWidget, size
\* mismatch) and on nothing else.
C29_Witness ==
    /\ RowEnded
    /\ row.tag = <<"Q", "t", "G", "u", "i", ":", "5", ".", "1">>
    /\ vtDiff.modifiedVTables = << <<QGraphicsProxyWidget, SizeMismatchText>> >>
    /\ vtDiff.removedVTables = <<>>
    /\ vtDiff.addedVTables = <<>>
    /\ vtDiff.reimpMethods = <<>>
    /\ sizeDiff = EmptySizeDiff
    /\ Failed

(***************************************************************************)
(* The cache of getCurrentInfo                                             *)
(***************************************************************************)

\* The cache holds a snapshot with class sizes for the library k.
Stored(k) ==
    /\ hashContains(cachedCurrentInfo, k)
    /\ hashValue(cachedCurrentInfo, k).classSizes # <<>>

\* The step is a call of getCurrentInfo, for the library of the row.
CallStep == pc = "current" /\ calls' = calls + 1

\* A stored snapshot with class sizes stays in the cache as it is.
StoredStays ==
    \A i \in 1..Len(cachedCurrentInfo) :
        LET k == cachedCurrentInfo[i].key IN
        Stored(k) =>
            /\ hashContains(cachedCurrentInfo', k)
            /\ hashValue(cachedCurrentInfo', k) = hashValue(cachedCurrentInfo, k)

\* The call finds a stored snapshot with class sizes: it returns it, the compiler does
\* not run and the cache is as before.
CallHits ==
    /\ returned' = hashValue(cachedCurrentInfo, row.libName)
    /\ compilerRuns' = compilerRuns
    /\ cachedCurrentInfo' = cachedCurrentInfo
    /\ pc' = "compare"

\* The call finds no such snapshot: the compiler runs; the cache has an entry for the
\* library afterwards, with no class sizes when the call returned a snapshot without
\* them (as it does when the compiler fails), and the snapshot returned otherwise.
CallMisses ==
    /\ compilerRuns' = compilerRuns + 1
    /\ hashContains(cachedCurrentInfo', row.libName)
    /\ pc' = "compare" =>
          IF returned'.classSizes = <<>>
          THEN ~Stored(row.libName)'
          ELSE hashValue(cachedCurrentInfo', row.libName) = returned'

\* C30: once a call of getCurrentInfo has stored a snapshot with class sizes for a
\* library, the snapshot stays and every later call for the library returns it without
\* running the compiler; a call that fails or yields no class sizes leaves an entry
\* without class sizes, and a call that finds such an entry or none runs the compiler.
C30_CurrentInfoCached ==
    [][ /\ StoredStays
        /\ CallStep => IF Stored(row.libName) THEN CallHits ELSE CallMisses ]_vars

\* The third call for QtCore has returned the stored snapshot after two runs of the
\* compiler: the first call left no class sizes, the second stored them, the third
\* found them.
C30_Witness ==
    /\ pc = "compare"
    /\ row.tag = <<"Q", "t", "C", "o", "r", "e", ":", "5", ".", "2">>
    /\ calls = 3
    /\ compilerRuns = 2
    /\ Stored(QtCore)
    /\ returned = hashValue(cachedCurrentInfo, QtCore)

====
